---- MODULE Spec2Model ----
(***************************************************************************)
(* Veiled Solana program: admission of signed off-chain verification       *)
(* results into the nullifier registry (lib.rs, ultrahonk.rs), and the     *)
(* permission grants and access records (instructions/, state/).           *)
(*                                                                         *)
(* Byte buffers are sequences of numbers 0..255 of their real lengths.     *)
(* 64-bit integers are kept at full width as four 16-bit limbs, least      *)
(* significant first; for a signed value the top limb is in                *)
(* -32768..32767.                                                          *)
(***************************************************************************)
EXTENDS Integers, Sequences, FiniteSets, TLC

(***************************************************************************)
(* Bounds of the model.                                                    *)
(***************************************************************************)
\* first value of the trusted clock (unix seconds)
ClockStart == 1000
\* number of one-second clock ticks explored
MaxTicks == 1

(***************************************************************************)
(* Byte and integer helpers.                                               *)
(***************************************************************************)
\* [b; n]: n copies of byte b
Fill(b, n) == [i \in 1..n |-> b]

\* data[from..to) with Rust's 0-based, end-exclusive indices
Slice(data, from, to) == SubSeq(data, from + 1, to)

\* data[i] with Rust's 0-based index
At(data, i) == data[i + 1]

\* u16::from_le_bytes([lo, hi])
u16_from_le_bytes(lo, hi) == lo + 256 * hi

\* u16::to_le_bytes
u16_to_le_bytes(v) == << v % 256, v \div 256 >>

\* u16::MAX
U16_MAX == 65535

\* u64::from_le_bytes over 8 bytes: four 16-bit limbs, least significant first
u64_from_le_bytes(b) ==
    [i \in 1..4 |-> u16_from_le_bytes(b[2 * i - 1], b[2 * i])]

\* u64::to_le_bytes
u64_to_le_bytes(v) ==
    [i \in 1..8 |-> IF i % 2 = 1 THEN v[(i + 1) \div 2] % 256
                                  ELSE v[i \div 2] \div 256]

\* `x as i64` for x: u64 (two's complement reinterpretation)
u64_as_i64(v) ==
    [v EXCEPT ![4] = IF v[4] >= 32768 THEN v[4] - 65536 ELSE v[4]]

\* an i64 holding the small non-negative number n (n < 2^31)
I64(n) == << n % 65536, (n \div 65536) % 65536, 0, 0 >>

\* a u64 holding the small non-negative number n (n < 2^31)
U64(n) == I64(n)

I64_MAX == << 65535, 65535, 65535, 32767 >>

I64_MIN == << 0, 0, 0, -32768 >>

\* u64::MAX
U64_MAX == << 65535, 65535, 65535, 65535 >>

\* i64::saturating_sub
i64_saturating_sub(a, b) ==
    LET r1 == a[1] - b[1]
        c1 == IF r1 < 0 THEN 1 ELSE 0
        r2 == a[2] - b[2] - c1
        c2 == IF r2 < 0 THEN 1 ELSE 0
        r3 == a[3] - b[3] - c2
        c3 == IF r3 < 0 THEN 1 ELSE 0
        h  == a[4] - b[4] - c3
    IN  IF h > 32767 THEN I64_MAX
        ELSE IF h < -32768 THEN I64_MIN
        ELSE << r1 + 65536 * c1, r2 + 65536 * c2, r3 + 65536 * c3, h >>

\* a <= b on i64
i64_le(a, b) ==
    \/ a[4] < b[4]
    \/ a[4] = b[4] /\ a[3] < b[3]
    \/ a[4] = b[4] /\ a[3] = b[3] /\ a[2] < b[2]
    \/ a[4] = b[4] /\ a[3] = b[3] /\ a[2] = b[2] /\ a[1] <= b[1]

(***************************************************************************)
(* Results of fallible functions: err = "Ok" or a VeiledError variant.     *)
(***************************************************************************)
Ok(v) == [err |-> "Ok", val |-> v]

Err(e) == [err |-> e, val |-> << >>]

VeiledError ==
    { "InvalidProof", "DuplicateNullifier", "ProofExpired", "DomainTooLong",
      "InvalidPublicInputs", "OffsetMismatch", "InvalidInstructionData",
      "InvalidSignatureCount", "InvalidMessageSize", "ProofHashMismatch",
      "IsValidMismatch", "AuthorityMismatch", "BadEd25519Program",
      "BadEd25519Accounts", "PermissionRevoked", "PermissionExpired",
      "PermissionNotGranted", "UnauthorizedRevocation", "TooManyPermissions" }

(***************************************************************************)
(* ultrahonk.rs                                                            *)
(***************************************************************************)
\* the Ed25519 signature verification program id
ED25519_PROGRAM_ID ==
    << 3, 125, 70, 214, 124, 147, 251, 190, 18, 249, 66, 143, 131, 141, 64, 255,
       5, 112, 116, 73, 39, 244, 138, 100, 252, 202, 112, 68, 128, 0, 0, 0 >>

\* length of an encoded verification result
RESULT_LEN == 105

\* a plausible slip: the signature is taken to be the rest of the buffer
from_instruction_data_to_end(data) ==
    IF ~(Len(data) >= RESULT_LEN) THEN Err("InvalidProof")
    ELSE Ok([ is_valid           |-> (At(data, 0) = 1),
              proof_hash         |-> Slice(data, 1, 33),
              timestamp          |-> u64_from_le_bytes(Slice(data, 33, 41)),
              verifier_signature |-> Slice(data, 41, Len(data)) ])

\* a plausible slip: every non-zero flag byte means valid
from_instruction_data_nonzero(data) ==
    IF ~(Len(data) >= RESULT_LEN) THEN Err("InvalidProof")
    ELSE Ok([ is_valid           |-> (At(data, 0) # 0),
              proof_hash         |-> Slice(data, 1, 33),
              timestamp          |-> u64_from_le_bytes(Slice(data, 33, 41)),
              verifier_signature |-> Slice(data, 41, 105) ])

\* VerificationResult::from_instruction_data
from_instruction_data(data) ==
    IF ~(Len(data) >= RESULT_LEN) THEN Err("InvalidProof")
    ELSE Ok([ is_valid           |-> (At(data, 0) = 1),
              proof_hash         |-> Slice(data, 1, 33),
              timestamp          |-> u64_from_le_bytes(Slice(data, 33, 41)),
              verifier_signature |-> Slice(data, 41, 105) ])

\* a plausible slip: the timestamp is written with to_be_bytes
create_instruction_data_big_endian(is_valid, proof_hash, timestamp, signature) ==
    << IF is_valid THEN 1 ELSE 0 >> \o proof_hash
        \o [i \in 1..8 |-> u64_to_le_bytes(timestamp)[9 - i]] \o signature

\* create_instruction_data
create_instruction_data(is_valid, proof_hash, timestamp, signature) ==
    << IF is_valid THEN 1 ELSE 0 >> \o proof_hash
        \o u64_to_le_bytes(timestamp) \o signature

\* the signed message rebuilt in validate_signature:
\* proof_hash (32) || is_valid (1) || timestamp (8, little-endian)
signed_message(result) ==
    result.proof_hash \o << IF result.is_valid THEN 1 ELSE 0 >>
        \o u64_to_le_bytes(result.timestamp)

HEADER_LEN == 16

PUBKEY_LEN == 32

SIG_LEN == 64

MSG_LEN == 41

\* the seven u16 fields of the first SignatureOffsets entry (base = 2)
signature_offset(data) == u16_from_le_bytes(At(data, 2), At(data, 3))

signature_ix_idx(data) == u16_from_le_bytes(At(data, 4), At(data, 5))

public_key_offset(data) == u16_from_le_bytes(At(data, 6), At(data, 7))

public_key_ix_idx(data) == u16_from_le_bytes(At(data, 8), At(data, 9))

message_offset(data) == u16_from_le_bytes(At(data, 10), At(data, 11))

message_size(data) == u16_from_le_bytes(At(data, 12), At(data, 13))

message_ix_idx(data) == u16_from_le_bytes(At(data, 14), At(data, 15))

\* a plausible slip: only the signature's locality index is checked
locality_check_signature_only(data) ==
    signature_ix_idx(data) = U16_MAX

\* SECURITY CHECK 3: all three locality indices are the u16::MAX sentinel
locality_check(data) ==
    /\ signature_ix_idx(data) = U16_MAX
    /\ public_key_ix_idx(data) = U16_MAX
    /\ message_ix_idx(data) = U16_MAX

\* a plausible slip: a signature that differs is an error, not a skip
content_checks_signature_error(sig_bytes, pk_bytes, msg_bytes, expected_pubkey, expected_message, expected_signature) ==
    IF ~(Slice(msg_bytes, 0, 32) = Slice(expected_message, 0, 32))
        THEN Err("ProofHashMismatch")
    ELSE IF ~(At(msg_bytes, 32) = At(expected_message, 32))
        THEN Err("IsValidMismatch")
    ELSE IF ~(pk_bytes = expected_pubkey) THEN Err("AuthorityMismatch")
    ELSE IF sig_bytes # expected_signature THEN Err("InvalidProof")
    ELSE Ok(TRUE)

\* a plausible slip: the flag byte is compared before the hash
content_checks_flag_first(sig_bytes, pk_bytes, msg_bytes, expected_pubkey, expected_message, expected_signature) ==
    IF ~(At(msg_bytes, 32) = At(expected_message, 32))
        THEN Err("IsValidMismatch")
    ELSE IF ~(Slice(msg_bytes, 0, 32) = Slice(expected_message, 0, 32))
        THEN Err("ProofHashMismatch")
    ELSE IF ~(pk_bytes = expected_pubkey) THEN Err("AuthorityMismatch")
    ELSE IF sig_bytes # expected_signature THEN Ok(FALSE)
    ELSE Ok(TRUE)

\* SECURITY CHECK 7, 8 and the final signature comparison of
\* ed25519_ix_matches, on the extracted slices
content_checks(sig_bytes, pk_bytes, msg_bytes, expected_pubkey, expected_message, expected_signature) ==
    IF ~(Slice(msg_bytes, 0, 32) = Slice(expected_message, 0, 32))
        THEN Err("ProofHashMismatch")
    ELSE IF ~(At(msg_bytes, 32) = At(expected_message, 32))
        THEN Err("IsValidMismatch")
    ELSE IF ~(pk_bytes = expected_pubkey) THEN Err("AuthorityMismatch")
    ELSE IF sig_bytes # expected_signature THEN Ok(FALSE)
    ELSE Ok(TRUE)

\* a plausible slip: `sig_count >= 1`, which lets a payload with two or more
\* offsets entries through to the parse of its first entry
ed25519_ix_matches_count_at_least_one(ix, expected_pubkey, expected_message, expected_signature) ==
    LET data == ix.data
        table_start == 2
        table_len == At(data, 0) * 14
    IN  IF ~(Len(data) >= HEADER_LEN) THEN Err("InvalidInstructionData")
        ELSE IF ~(At(data, 0) >= 1) THEN Err("InvalidSignatureCount")
        ELSE IF ~(Len(data) >= table_start + table_len)
            THEN Err("InvalidInstructionData")
        ELSE IF ~ locality_check(data) THEN Err("OffsetMismatch")
        ELSE IF ~(/\ signature_offset(data) >= HEADER_LEN
                  /\ public_key_offset(data) >= HEADER_LEN
                  /\ message_offset(data) >= HEADER_LEN)
            THEN Err("InvalidInstructionData")
        ELSE IF ~(Len(data) >= signature_offset(data) + SIG_LEN)
            THEN Err("InvalidInstructionData")
        ELSE IF ~(Len(data) >= public_key_offset(data) + PUBKEY_LEN)
            THEN Err("InvalidInstructionData")
        ELSE IF ~(Len(data) >= message_offset(data) + message_size(data))
            THEN Err("InvalidInstructionData")
        ELSE IF ~(message_size(data) = MSG_LEN) THEN Err("InvalidMessageSize")
        ELSE content_checks(
                Slice(data, signature_offset(data), signature_offset(data) + SIG_LEN),
                Slice(data, public_key_offset(data), public_key_offset(data) + PUBKEY_LEN),
                Slice(data, message_offset(data), message_offset(data) + MSG_LEN),
                expected_pubkey, expected_message, expected_signature)

\* a plausible slip: only the signature offset is held to the header length
ed25519_ix_matches_signature_offset_only(ix, expected_pubkey, expected_message, expected_signature) ==
    LET data == ix.data
        table_start == 2
        table_len == At(data, 0) * 14
    IN  IF ~(Len(data) >= HEADER_LEN) THEN Err("InvalidInstructionData")
        ELSE IF ~(At(data, 0) = 1) THEN Err("InvalidSignatureCount")
        ELSE IF ~(Len(data) >= table_start + table_len)
            THEN Err("InvalidInstructionData")
        ELSE IF ~ locality_check(data) THEN Err("OffsetMismatch")
        ELSE IF ~(signature_offset(data) >= HEADER_LEN)
            THEN Err("InvalidInstructionData")
        ELSE IF ~(Len(data) >= signature_offset(data) + SIG_LEN)
            THEN Err("InvalidInstructionData")
        ELSE IF ~(Len(data) >= public_key_offset(data) + PUBKEY_LEN)
            THEN Err("InvalidInstructionData")
        ELSE IF ~(Len(data) >= message_offset(data) + message_size(data))
            THEN Err("InvalidInstructionData")
        ELSE IF ~(message_size(data) = MSG_LEN) THEN Err("InvalidMessageSize")
        ELSE content_checks(
                Slice(data, signature_offset(data), signature_offset(data) + SIG_LEN),
                Slice(data, public_key_offset(data), public_key_offset(data) + PUBKEY_LEN),
                Slice(data, message_offset(data), message_offset(data) + MSG_LEN),
                expected_pubkey, expected_message, expected_signature)

\* a plausible slip: `msg_size >= MSG_LEN`, which lets a longer message through
ed25519_ix_matches_size_at_least(ix, expected_pubkey, expected_message, expected_signature) ==
    LET data == ix.data
        table_start == 2
        table_len == At(data, 0) * 14
    IN  IF ~(Len(data) >= HEADER_LEN) THEN Err("InvalidInstructionData")
        ELSE IF ~(At(data, 0) = 1) THEN Err("InvalidSignatureCount")
        ELSE IF ~(Len(data) >= table_start + table_len)
            THEN Err("InvalidInstructionData")
        ELSE IF ~ locality_check(data) THEN Err("OffsetMismatch")
        ELSE IF ~(/\ signature_offset(data) >= HEADER_LEN
                  /\ public_key_offset(data) >= HEADER_LEN
                  /\ message_offset(data) >= HEADER_LEN)
            THEN Err("InvalidInstructionData")
        ELSE IF ~(Len(data) >= signature_offset(data) + SIG_LEN)
            THEN Err("InvalidInstructionData")
        ELSE IF ~(Len(data) >= public_key_offset(data) + PUBKEY_LEN)
            THEN Err("InvalidInstructionData")
        ELSE IF ~(Len(data) >= message_offset(data) + message_size(data))
            THEN Err("InvalidInstructionData")
        ELSE IF ~(message_size(data) >= MSG_LEN) THEN Err("InvalidMessageSize")
        ELSE content_checks(
                Slice(data, signature_offset(data), signature_offset(data) + SIG_LEN),
                Slice(data, public_key_offset(data), public_key_offset(data) + PUBKEY_LEN),
                Slice(data, message_offset(data), message_offset(data) + MSG_LEN),
                expected_pubkey, expected_message, expected_signature)

\* VerificationResult::ed25519_ix_matches
ed25519_ix_matches(ix, expected_pubkey, expected_message, expected_signature) ==
    LET data == ix.data
        table_start == 2
        table_len == At(data, 0) * 14
    IN  IF ~(Len(data) >= HEADER_LEN) THEN Err("InvalidInstructionData")
        ELSE IF ~(At(data, 0) = 1) THEN Err("InvalidSignatureCount")
        ELSE IF ~(Len(data) >= table_start + table_len)
            THEN Err("InvalidInstructionData")
        ELSE IF ~ locality_check(data) THEN Err("OffsetMismatch")
        ELSE IF ~(/\ signature_offset(data) >= HEADER_LEN
                  /\ public_key_offset(data) >= HEADER_LEN
                  /\ message_offset(data) >= HEADER_LEN)
            THEN Err("InvalidInstructionData")
        ELSE IF ~(Len(data) >= signature_offset(data) + SIG_LEN)
            THEN Err("InvalidInstructionData")
        ELSE IF ~(Len(data) >= public_key_offset(data) + PUBKEY_LEN)
            THEN Err("InvalidInstructionData")
        ELSE IF ~(Len(data) >= message_offset(data) + message_size(data))
            THEN Err("InvalidInstructionData")
        ELSE IF ~(message_size(data) = MSG_LEN) THEN Err("InvalidMessageSize")
        ELSE content_checks(
                Slice(data, signature_offset(data), signature_offset(data) + SIG_LEN),
                Slice(data, public_key_offset(data), public_key_offset(data) + PUBKEY_LEN),
                Slice(data, message_offset(data), message_offset(data) + MSG_LEN),
                expected_pubkey, expected_message, expected_signature)

\* a plausible slip: the three slices are taken right after the offsets are
\* held to the header length, before the slice bounds and the message size
\* are checked
ed25519_ix_reads_slices_first(ix) ==
    LET data == ix.data
        header == { 0 } \cup (2 .. 15)
    IN  IF ~(Len(data) >= HEADER_LEN) THEN { }
        ELSE IF ~(At(data, 0) = 1) THEN { 0 }
        ELSE IF ~(Len(data) >= 2 + At(data, 0) * 14) THEN { 0 }
        ELSE IF ~ locality_check(data) THEN header
        ELSE IF ~(/\ signature_offset(data) >= HEADER_LEN
                  /\ public_key_offset(data) >= HEADER_LEN
                  /\ message_offset(data) >= HEADER_LEN)
            THEN header
        ELSE header
             \cup (signature_offset(data) .. signature_offset(data) + SIG_LEN - 1)
             \cup (public_key_offset(data) .. public_key_offset(data) + PUBKEY_LEN - 1)
             \cup (message_offset(data) .. message_offset(data) + MSG_LEN - 1)

\* the 0-based byte indices of the payload that ed25519_ix_matches
\* dereferences on the path it takes: data[0] after the header length check,
\* data[2] .. data[15] after the table length check, and the signature,
\* public-key and message slices after checks 3 to 6
ed25519_ix_reads(ix) ==
    LET data == ix.data
        header == { 0 } \cup (2 .. 15)
    IN  IF ~(Len(data) >= HEADER_LEN) THEN { }
        ELSE IF ~(At(data, 0) = 1) THEN { 0 }
        ELSE IF ~(Len(data) >= 2 + At(data, 0) * 14) THEN { 0 }
        ELSE IF ~ locality_check(data) THEN header
        ELSE IF ~(/\ signature_offset(data) >= HEADER_LEN
                  /\ public_key_offset(data) >= HEADER_LEN
                  /\ message_offset(data) >= HEADER_LEN)
            THEN header
        ELSE IF ~(Len(data) >= signature_offset(data) + SIG_LEN) THEN header
        ELSE IF ~(Len(data) >= public_key_offset(data) + PUBKEY_LEN) THEN header
        ELSE IF ~(Len(data) >= message_offset(data) + message_size(data))
            THEN header
        ELSE IF ~(message_size(data) = MSG_LEN) THEN header
        ELSE header
             \cup (signature_offset(data) .. signature_offset(data) + SIG_LEN - 1)
             \cup (public_key_offset(data) .. public_key_offset(data) + PUBKEY_LEN - 1)
             \cup (message_offset(data) .. message_offset(data) + MSG_LEN - 1)

\* a plausible slip: the payload is parsed before the accounts are looked at
examine_parse_first(ix, expected_pubkey, expected_message, expected_signature) ==
    IF ix.program_id # ED25519_PROGRAM_ID THEN "continue"
    ELSE LET m == ed25519_ix_matches(ix, expected_pubkey, expected_message,
                                     expected_signature)
         IN  IF m.err # "Ok" THEN m.err
             ELSE IF ~(ix.accounts = << >>) THEN "BadEd25519Accounts"
             ELSE IF m.val THEN "return" ELSE "continue"

\* one step of the loop of verify_ed25519_instruction on instruction ix:
\* "continue" (keep scanning), "return" (Ok) or an error
examine(ix, expected_pubkey, expected_message, expected_signature) ==
    IF ix.program_id # ED25519_PROGRAM_ID THEN "continue"
    ELSE IF ~(ix.accounts = << >>) THEN "BadEd25519Accounts"
    ELSE LET m == ed25519_ix_matches(ix, expected_pubkey, expected_message,
                                     expected_signature)
         IN  IF m.err # "Ok" THEN m.err
             ELSE IF m.val THEN "return" ELSE "continue"

\* the loop `for idx in (0..current_index).rev()` from index idx downwards;
\* instruction idx (0-based) is ixs[idx + 1]; -1 ends the loop
RECURSIVE scan_from(_, _, _, _, _)
scan_from(ixs, idx, expected_pubkey, expected_message, expected_signature) ==
    IF idx < 0 THEN "InvalidProof"
    ELSE LET step == examine(ixs[idx + 1], expected_pubkey, expected_message,
                             expected_signature)
         IN  IF step = "continue"
                 THEN scan_from(ixs, idx - 1, expected_pubkey, expected_message,
                                expected_signature)
             ELSE IF step = "return" THEN "Ok"
             ELSE step

\* a plausible slip: only the instruction right before the current one is
\* looked at
verify_ed25519_instruction_latest_only(tx, expected_pubkey, expected_message, expected_signature) ==
    IF tx.current_index - 1 < 0 THEN "InvalidProof"
    ELSE LET step == examine(tx.ixs[tx.current_index], expected_pubkey,
                             expected_message, expected_signature)
         IN  IF step = "continue" THEN "InvalidProof"
             ELSE IF step = "return" THEN "Ok"
             ELSE step

\* a plausible slip: the function ends with Ok(()) when the loop finds nothing
verify_ed25519_instruction_ok_when_none(tx, expected_pubkey, expected_message, expected_signature) ==
    LET r == scan_from(tx.ixs, tx.current_index - 1, expected_pubkey,
                       expected_message, expected_signature)
    IN  IF r = "InvalidProof" THEN "Ok" ELSE r

\* a plausible slip: the scan covers every instruction of the transaction,
\* those behind the current one included
verify_ed25519_instruction_whole_transaction(tx, expected_pubkey, expected_message, expected_signature) ==
    scan_from(tx.ixs, Len(tx.ixs) - 1, expected_pubkey, expected_message,
              expected_signature)

\* VerificationResult::verify_ed25519_instruction; tx is the transaction as
\* the instructions sysvar shows it: its instructions and the current index
verify_ed25519_instruction(tx, expected_pubkey, expected_message, expected_signature) ==
    scan_from(tx.ixs, tx.current_index - 1, expected_pubkey, expected_message,
              expected_signature)

\* VerificationResult::validate_signature
validate_signature(result, verifier_pubkey, tx) ==
    verify_ed25519_instruction(tx, verifier_pubkey, signed_message(result),
                               result.verifier_signature)

\* max_age in is_recent: 5 minutes in seconds
MAX_AGE == 300

\* a plausible slip: `age < max_age`, which rejects an age of exactly 300
is_recent_strict(result, current_timestamp) ==
    LET age == i64_saturating_sub(current_timestamp, u64_as_i64(result.timestamp))
    IN  IF i64_le(I64(MAX_AGE), age) THEN "ProofExpired" ELSE "Ok"

\* VerificationResult::is_recent; current_timestamp is an i64
is_recent(result, current_timestamp) ==
    LET age == i64_saturating_sub(current_timestamp, u64_as_i64(result.timestamp))
    IN  IF ~ i64_le(age, I64(MAX_AGE)) THEN "ProofExpired" ELSE "Ok"

(***************************************************************************)
(* lib.rs                                                                  *)
(***************************************************************************)
Zero32 == Fill(0, 32)

\* #[account] NullifierAccount; exists = the account has been created.
\* A String is held as its UTF-8 bytes.
NullifierAccount(nullifier, domain, created_at, expires_at) ==
    [ exists |-> TRUE, nullifier |-> nullifier, domain |-> domain,
      created_at |-> created_at, expires_at |-> expires_at ]

\* no account at the PDA
NoAccount ==
    [ exists |-> FALSE, nullifier |-> Zero32, domain |-> << >>,
      created_at |-> 0, expires_at |-> 0 ]

\* #[account(init_if_needed, ...)]: a missing account is created zeroed,
\* an existing one is loaded as it is
init_if_needed(acct) ==
    IF acct.exists THEN acct ELSE NullifierAccount(Zero32, << >>, 0, 0)

\* domain.iter().position(|&b| b == 0).unwrap_or(32)
RECURSIVE position_of_zero(_, _)
position_of_zero(domain, i) ==
    IF i >= Len(domain) THEN 32
    ELSE IF At(domain, i) = 0 THEN i
    ELSE position_of_zero(domain, i + 1)

InRange(b, lo, hi) == lo <= b /\ b <= hi

\* core::str::from_utf8(..).is_ok(): well-formed UTF-8 byte sequences
RECURSIVE from_utf8_ok(_)
from_utf8_ok(s) ==
    LET n == Len(s)
        cont(i) == n >= i /\ InRange(s[i], 128, 191)
        rest(k) == from_utf8_ok(SubSeq(s, k + 1, n))
    IN  IF n = 0 THEN TRUE
        ELSE IF s[1] <= 127 THEN rest(1)
        ELSE IF InRange(s[1], 194, 223) THEN cont(2) /\ rest(2)
        ELSE IF s[1] = 224
            THEN n >= 2 /\ InRange(s[2], 160, 191) /\ cont(3) /\ rest(3)
        ELSE IF InRange(s[1], 225, 236) \/ InRange(s[1], 238, 239)
            THEN cont(2) /\ cont(3) /\ rest(3)
        ELSE IF s[1] = 237
            THEN n >= 2 /\ InRange(s[2], 128, 159) /\ cont(3) /\ rest(3)
        ELSE IF s[1] = 240
            THEN n >= 2 /\ InRange(s[2], 144, 191) /\ cont(3) /\ cont(4) /\ rest(4)
        ELSE IF InRange(s[1], 241, 243)
            THEN cont(2) /\ cont(3) /\ cont(4) /\ rest(4)
        ELSE IF s[1] = 244
            THEN n >= 2 /\ InRange(s[2], 128, 143) /\ cont(3) /\ cont(4) /\ rest(4)
        ELSE FALSE

\* DEFAULT_EXPIRY_SECONDS: 30 days
DEFAULT_EXPIRY_SECONDS == 30 * 24 * 60 * 60

\* a plausible slip: the expiry is computed from the account's created_at
\* before it is set
admit_nullifier_stale_expiry(acct, nullifier, domain_str, now) ==
    IF acct.nullifier # Zero32 /\ acct.nullifier = nullifier
        THEN [err |-> "DuplicateNullifier", acct |-> acct]
    ELSE [err |-> "Ok",
          acct |-> [acct EXCEPT !.nullifier = nullifier,
                                !.domain = domain_str,
                                !.created_at = now,
                                !.expires_at = acct.created_at + DEFAULT_EXPIRY_SECONDS]]

\* the replay check and the store at the end of verify_auth
admit_nullifier(acct, nullifier, domain_str, now) ==
    IF acct.nullifier # Zero32 /\ acct.nullifier = nullifier
        THEN [err |-> "DuplicateNullifier", acct |-> acct]
    ELSE [err |-> "Ok",
          acct |-> [acct EXCEPT !.nullifier = nullifier,
                                !.domain = domain_str,
                                !.created_at = now,
                                !.expires_at = now + DEFAULT_EXPIRY_SECONDS]]

\* a plausible slip: freshness and the validity flag are checked before the
\* companion signature
check_result_freshness_first(result, authority, tx, now) ==
    LET sig == validate_signature(result, authority, tx)
        recent == is_recent(result, I64(now))
    IN  IF recent # "Ok" THEN recent
        ELSE IF ~ result.is_valid THEN "InvalidProof"
        ELSE IF sig # "Ok" THEN sig
        ELSE "Ok"

\* the checks of verify_auth on the decoded result, in the handler's order
check_result(result, authority, tx, now) ==
    LET sig == validate_signature(result, authority, tx)
        recent == is_recent(result, I64(now))
    IN  IF sig # "Ok" THEN sig
        ELSE IF recent # "Ok" THEN recent
        ELSE IF ~ result.is_valid THEN "InvalidProof"
        ELSE "Ok"

\* a plausible slip: only the upper limit of the label length is checked
verify_auth_allows_empty(acct, verification_result, nullifier, domain, authority, tx, now) ==
    LET domain_len == position_of_zero(domain, 0)
        domain_slice == Slice(domain, 0, domain_len)
        decoded == from_instruction_data(verification_result)
        checked == check_result(decoded.val, authority, tx, now)
    IN  IF ~(domain_len <= 32)
            THEN [err |-> "DomainTooLong", acct |-> acct]
        ELSE IF ~ from_utf8_ok(domain_slice)
            THEN [err |-> "DomainTooLong", acct |-> acct]
        ELSE IF decoded.err # "Ok" THEN [err |-> "InvalidProof", acct |-> acct]
        ELSE IF checked # "Ok" THEN [err |-> checked, acct |-> acct]
        ELSE admit_nullifier(acct, nullifier, domain_slice, now)

\* the handler verify_auth on the loaded nullifier account acct; now is
\* Clock::get()?.unix_timestamp. Returns the error ("Ok" for Ok(())) and the
\* account as the handler leaves it.
verify_auth(acct, verification_result, nullifier, domain, authority, tx, now) ==
    LET domain_len == position_of_zero(domain, 0)
        domain_slice == Slice(domain, 0, domain_len)
        decoded == from_instruction_data(verification_result)
        checked == check_result(decoded.val, authority, tx, now)
    IN  IF ~(domain_len > 0 /\ domain_len <= 32)
            THEN [err |-> "DomainTooLong", acct |-> acct]
        ELSE IF ~ from_utf8_ok(domain_slice)
            THEN [err |-> "DomainTooLong", acct |-> acct]
        ELSE IF decoded.err # "Ok" THEN [err |-> "InvalidProof", acct |-> acct]
        ELSE IF checked # "Ok" THEN [err |-> checked, acct |-> acct]
        ELSE admit_nullifier(acct, nullifier, domain_slice, now)

\* a plausible slip: the PDA seeds leave out the key, so that every key
\* resolves to one shared account
commit_shared_account(reg, nullifier, res) ==
    IF res.err = "Ok" THEN [k \in DOMAIN reg |-> res.acct] ELSE reg

\* a plausible slip: the handler's error is logged and swallowed, so the
\* account as loaded (created when missing) is written back all the same
commit_on_error(reg, nullifier, res) ==
    [reg EXCEPT ![nullifier] = res.acct]

\* Anchor writes the account back when the handler returns Ok(()); an Err
\* aborts the transaction, the account's creation included
commit(reg, nullifier, res) ==
    IF res.err = "Ok" THEN [reg EXCEPT ![nullifier] = res.acct] ELSE reg

(***************************************************************************)
(* state/permission.rs and instructions/: the permission subsystem         *)
(***************************************************************************)
\* enum Permission
Permission ==
    { "RevealWalletAddress", "RevealExactBalance", "RevealTokenBalances",
      "RevealNFTList", "RevealTransactionHistory", "RevealStakingPositions",
      "RevealDeFiPositions", "SignTransactions" }

\* #[account] PermissionGrant; exists = the account has been created
PermissionGrant(nullifier, app_id, permissions, granted_at, expires_at, revoked, bump) ==
    [ exists |-> TRUE, nullifier |-> nullifier, app_id |-> app_id,
      permissions |-> permissions, granted_at |-> granted_at,
      expires_at |-> expires_at, revoked |-> revoked, bump |-> bump ]

\* no account at the grant's address
NoGrant ==
    [ exists |-> FALSE, nullifier |-> Zero32, app_id |-> Zero32,
      permissions |-> << >>, granted_at |-> 0, expires_at |-> 0,
      revoked |-> FALSE, bump |-> 0 ]

\* #[account] PermissionAccess
PermissionAccess(permission_grant, accessed_at, permission_used, metadata) ==
    [ exists |-> TRUE, permission_grant |-> permission_grant,
      accessed_at |-> accessed_at, permission_used |-> permission_used,
      metadata |-> metadata ]

\* no account at the access record's address
NoAccess ==
    [ exists |-> FALSE, permission_grant |-> << >>, accessed_at |-> 0,
      permission_used |-> "RevealWalletAddress", metadata |-> << >> ]

\* the address of the grant account: the PDA of seeds
\* [b"permission", nullifier, app_id]
grant_address(nullifier, app_id) == << nullifier, app_id >>

\* ctx.bumps.permission_grant: stands for the canonical bump of the PDA
BUMP == 255

\* the most permissions a grant may hold
MAX_PERMISSIONS == 10

\* the most bytes of metadata an access record may hold
MAX_METADATA_LEN == 100

\* the error of a transaction that Anchor's account validation turns down
\* before the handler runs (init on an existing account, or an account that
\* is not the program's initialised account of the declared type)
ACCOUNT_ERROR == "AccountConstraint"

\* a plausible slip: the limit is checked with `<` instead of `<=`
handle_grant_permissions_strict(grant, nullifier, app_id, permissions, expires_in, now) ==
    IF ~(Len(permissions) < MAX_PERMISSIONS)
        THEN [err |-> "TooManyPermissions", acct |-> grant]
    ELSE [err |-> "Ok",
          acct |-> PermissionGrant(nullifier, app_id, permissions, now,
                                   now + expires_in, FALSE, BUMP)]

\* handle_grant_permissions on the new grant account
handle_grant_permissions(grant, nullifier, app_id, permissions, expires_in, now) ==
    IF ~(Len(permissions) <= MAX_PERMISSIONS)
        THEN [err |-> "TooManyPermissions", acct |-> grant]
    ELSE [err |-> "Ok",
          acct |-> PermissionGrant(nullifier, app_id, permissions, now,
                                   now + expires_in, FALSE, BUMP)]

\* a plausible slip: the grant account is declared init_if_needed, as the
\* nullifier account of verify_auth is, so that the handler runs on an
\* existing grant too
grant_permissions_init_if_needed(grant, nullifier, app_id, permissions, expires_in, now) ==
    handle_grant_permissions(grant, nullifier, app_id, permissions,
                             expires_in, now)

\* the instruction grant_permissions: #[account(init, ...)] fails when the
\* account at the PDA exists, then the handler runs
grant_permissions(grant, nullifier, app_id, permissions, expires_in, now) ==
    IF grant.exists THEN [err |-> ACCOUNT_ERROR, acct |-> grant]
    ELSE handle_grant_permissions(grant, nullifier, app_id, permissions,
                                  expires_in, now)

\* handle_revoke_permissions: any signer may revoke
handle_revoke_permissions(grant) ==
    [err |-> "Ok", acct |-> [grant EXCEPT !.revoked = TRUE]]

\* the instruction revoke_permissions: permission_grant must be an
\* initialised PermissionGrant account
revoke_permissions(grant) ==
    IF ~ grant.exists THEN [err |-> ACCOUNT_ERROR, acct |-> grant]
    ELSE handle_revoke_permissions(grant)

\* permissions.contains(&permission_used)
contains(permissions, permission_used) ==
    \E i \in DOMAIN permissions : permissions[i] = permission_used

\* a plausible slip: `>=` lets a grant be used at the second it expires
handle_log_permission_access_inclusive(access, grant, grant_key, permission_used, metadata, now) ==
    IF ~(~ grant.revoked)
        THEN [err |-> "PermissionRevoked", acct |-> access]
    ELSE IF ~(grant.expires_at >= now)
        THEN [err |-> "PermissionExpired", acct |-> access]
    ELSE IF ~ contains(grant.permissions, permission_used)
        THEN [err |-> "PermissionNotGranted", acct |-> access]
    ELSE IF ~(Len(metadata) <= MAX_METADATA_LEN)
        THEN [err |-> "DomainTooLong", acct |-> access]
    ELSE [err |-> "Ok",
          acct |-> PermissionAccess(grant_key, now, permission_used, metadata)]

\* handle_log_permission_access on the new access account; grant_key is
\* permission_grant.key()
handle_log_permission_access(access, grant, grant_key, permission_used, metadata, now) ==
    IF ~(~ grant.revoked)
        THEN [err |-> "PermissionRevoked", acct |-> access]
    ELSE IF ~(grant.expires_at > now)
        THEN [err |-> "PermissionExpired", acct |-> access]
    ELSE IF ~ contains(grant.permissions, permission_used)
        THEN [err |-> "PermissionNotGranted", acct |-> access]
    ELSE IF ~(Len(metadata) <= MAX_METADATA_LEN)
        THEN [err |-> "DomainTooLong", acct |-> access]
    ELSE [err |-> "Ok",
          acct |-> PermissionAccess(grant_key, now, permission_used, metadata)]

\* a plausible slip: the access account is declared init_if_needed, so that
\* the handler runs on an existing access record too
log_permission_access_init_if_needed(access, grant, grant_key, permission_used, metadata, now) ==
    IF ~ grant.exists THEN [err |-> ACCOUNT_ERROR, acct |-> access]
    ELSE handle_log_permission_access(access, grant, grant_key, permission_used,
                                      metadata, now)

\* the instruction log_permission_access: #[account(init, ...)] fails when
\* the access account exists, permission_grant must be an initialised
\* PermissionGrant account, then the handler runs
log_permission_access(access, grant, grant_key, permission_used, metadata, now) ==
    IF access.exists \/ ~ grant.exists
        THEN [err |-> ACCOUNT_ERROR, acct |-> access]
    ELSE handle_log_permission_access(access, grant, grant_key, permission_used,
                                      metadata, now)

(***************************************************************************)
(* Transactions: the instructions sysvar shows every instruction of the    *)
(* transaction (program id, account metas, data) and the current index.    *)
(***************************************************************************)
Instruction(program_id, accounts, data) ==
    [ program_id |-> program_id, accounts |-> accounts, data |-> data ]

\* AccountMeta::new(Pubkey::default(), false)
DefaultAccountMeta ==
    [ pubkey |-> Zero32, is_signer |-> FALSE, is_writable |-> TRUE ]

\* tests::create_mock_ed25519_instruction
create_mock_ed25519_instruction(sig_ix_idx, pk_ix_idx, msg_ix_idx, public_key, message, signature) ==
    LET sig_off == HEADER_LEN
        pk_off == HEADER_LEN + SIG_LEN
        msg_off == HEADER_LEN + SIG_LEN + PUBKEY_LEN
    IN  Instruction(ED25519_PROGRAM_ID, << >>,
            << 1, 0 >>
            \o u16_to_le_bytes(sig_off) \o u16_to_le_bytes(sig_ix_idx)
            \o u16_to_le_bytes(pk_off) \o u16_to_le_bytes(pk_ix_idx)
            \o u16_to_le_bytes(msg_off) \o u16_to_le_bytes(Len(message))
            \o u16_to_le_bytes(msg_ix_idx)
            \o signature \o public_key \o message)

\* the System program's id (all zero), a program that is not the facility
SYSTEM_PROGRAM_ID == Zero32

\* stands for this program's own id (declare_id!), any id but the facility's
OWN_PROGRAM_ID == Fill(7, 32)

(***************************************************************************)
(* Inputs explored: attestation buffers, companion instructions made from  *)
(* a matching one by one change each, bundles, nullifiers and labels.      *)
(***************************************************************************)
\* longest run of prior instructions enumerated exhaustively
MaxPrior == 2

Patch(data, i, b) == [data EXCEPT ![i + 1] = b]

PatchU16(data, i, v) ==
    [data EXCEPT ![i + 1] = v % 256, ![i + 2] = v \div 256]

HASH == Fill(17, 32)

SIGNATURE == Fill(34, 64)

AUTHORITY == Fill(1, 32)

OTHER_KEY == Fill(2, 32)

N1 == Fill(161, 32)

N2 == Fill(162, 32)

Nullifiers == { Zero32, N1, N2 }

\* "ab", then zeros
DomainAb == << 97, 98 >> \o Fill(0, 30)

\* 32 bytes without a zero
DomainFull == Fill(97, 32)

\* "a", a zero, then more bytes
DomainCut == << 97, 0, 98, 99 >> \o Fill(0, 28)

\* empty label
DomainEmpty == Fill(0, 32)

\* a byte that is not UTF-8
DomainNotUtf8 == << 97, 255 >> \o Fill(0, 30)

AttKinds ==
    { "fresh", "edge", "stale", "future", "flag0", "flag2", "flag255", "short",
      "long", "longer", "empty", "ts_i64_max", "ts_2_63", "ts_u64_max" }

\* the attestation buffer of each kind; ages are relative to ClockStart
Attestation(kind) ==
    LET at(flag, ts) == Patch(create_instruction_data(TRUE, HASH, U64(ts), SIGNATURE), 0, flag)
    IN  CASE kind = "fresh"  -> at(1, ClockStart - 10)
          [] kind = "edge"   -> at(1, ClockStart - MAX_AGE)
          [] kind = "stale"  -> at(1, ClockStart - MAX_AGE - 100)
          [] kind = "future" -> at(1, ClockStart + 50)
          [] kind = "ts_i64_max" -> create_instruction_data(TRUE, HASH, I64_MAX, SIGNATURE)
          [] kind = "ts_2_63" -> create_instruction_data(TRUE, HASH, << 0, 0, 0, 32768 >>, SIGNATURE)
          [] kind = "ts_u64_max" -> create_instruction_data(TRUE, HASH, U64_MAX, SIGNATURE)
          [] kind = "flag0"  -> at(0, ClockStart - 10)
          [] kind = "flag2"  -> at(2, ClockStart - 10)
          [] kind = "flag255" -> at(255, ClockStart - 10)
          [] kind = "short"  -> SubSeq(at(1, ClockStart - 10), 1, RESULT_LEN - 1)
          [] kind = "long"   -> at(1, ClockStart - 10) \o << 77 >>
          [] kind = "longer" -> at(1, ClockStart - 10) \o Fill(9, 20)
          [] kind = "empty"  -> << >>

\* the decoded attestation a companion instruction is made for: the
\* buffer's own when it decodes, the fresh one's otherwise
Reference(att) ==
    IF Len(att) >= RESULT_LEN THEN from_instruction_data(att).val
    ELSE from_instruction_data(Attestation("fresh")).val

\* kinds that the scan skips, accepts or fails hard on
ScanKinds == { "match", "sig", "other", "loc_sig", "accounts" }

IxKinds ==
    ScanKinds \cup
    { "sig_last", "pk", "hash", "hash_last", "flag", "hash_flag", "ts", "ts_last",
      "loc_pk", "loc_msg", "loc_all_wrong", "count0", "count2", "short", "empty",
      "trunc", "off_low", "size40", "size_big", "other_accounts",
      "accounts_empty", "loc_header_only", "loc_off_low", "header_only",
      "off_max", "size_max", "count255", "count2_loc", "count0_header",
      "count2_header", "count0_zeros", "sig_off_15", "sig_off_edge",
      "sig_off_over", "sig_off_max", "pk_off_low", "pk_off_over", "msg_off_low",
      "msg_off_max", "size0", "size42", "size42_pk", "size40_hash",
      "one_byte", "all_ff", "ff_count1", "header_17" }

\* the companion instruction of each kind for decoded attestation r
Companion(kind, r) ==
    LET msg == signed_message(r)
        sig == r.verifier_signature
        mock(a, b, c) == create_mock_ed25519_instruction(a, b, c, AUTHORITY, msg, sig)
        base == mock(U16_MAX, U16_MAX, U16_MAX)
        sig_off == HEADER_LEN
        msg_off == HEADER_LEN + SIG_LEN + PUBKEY_LEN
        bump(i) == Patch(base.data, i, (At(base.data, i) + 1) % 256)
        with(d) == [base EXCEPT !.data = d]
    IN  CASE kind = "match" -> base
          [] kind = "sig" ->
                create_mock_ed25519_instruction(U16_MAX, U16_MAX, U16_MAX,
                    AUTHORITY, msg, Fill(35, 64))
          [] kind = "sig_last" -> with(bump(sig_off + SIG_LEN - 1))
          [] kind = "pk" ->
                create_mock_ed25519_instruction(U16_MAX, U16_MAX, U16_MAX,
                    OTHER_KEY, msg, sig)
          [] kind = "hash" -> with(bump(msg_off))
          [] kind = "hash_last" -> with(bump(msg_off + 31))
          [] kind = "flag" -> with(Patch(base.data, msg_off + 32, 1 - At(msg, 32)))
          [] kind = "hash_flag" ->
                with(Patch(bump(msg_off), msg_off + 32, 1 - At(msg, 32)))
          [] kind = "ts" -> with(bump(msg_off + 33))
          [] kind = "ts_last" -> with(bump(msg_off + 40))
          [] kind = "loc_sig" -> mock(0, U16_MAX, U16_MAX)
          [] kind = "loc_pk" -> mock(U16_MAX, 0, U16_MAX)
          [] kind = "loc_msg" -> mock(U16_MAX, U16_MAX, U16_MAX - 1)
          [] kind = "loc_all_wrong" ->
                create_mock_ed25519_instruction(1, 2, 3, OTHER_KEY,
                    Fill(9, 40), Fill(35, 64))
          [] kind = "count0" -> with(Patch(base.data, 0, 0))
          [] kind = "count2" -> with(Patch(base.data, 0, 2))
          [] kind = "short" -> with(SubSeq(base.data, 1, HEADER_LEN - 1))
          [] kind = "empty" -> with(<< >>)
          [] kind = "trunc" -> with(SubSeq(base.data, 1, Len(base.data) - 1))
          [] kind = "off_low" -> with(PatchU16(base.data, 2, 0))
          [] kind = "size40" ->
                create_mock_ed25519_instruction(U16_MAX, U16_MAX, U16_MAX,
                    AUTHORITY, SubSeq(msg, 1, MSG_LEN - 1), sig)
          [] kind = "size_big" -> with(PatchU16(base.data, 12, MSG_LEN + 1))
          [] kind = "other" -> [base EXCEPT !.program_id = SYSTEM_PROGRAM_ID]
          [] kind = "other_accounts" ->
                Instruction(SYSTEM_PROGRAM_ID, << DefaultAccountMeta >>, << 2, 0, 0, 0 >>)
          [] kind = "accounts" -> [base EXCEPT !.accounts = << DefaultAccountMeta >>]
          [] kind = "accounts_empty" ->
                Instruction(ED25519_PROGRAM_ID, << DefaultAccountMeta >>, << >>)
          [] kind = "loc_header_only" ->
                with(SubSeq(mock(U16_MAX, 0, U16_MAX).data, 1, HEADER_LEN))
          [] kind = "loc_off_low" ->
                with(PatchU16(mock(U16_MAX, U16_MAX, 0).data, 2, 0))
          [] kind = "header_only" -> with(SubSeq(base.data, 1, HEADER_LEN))
          [] kind = "off_max" -> with(PatchU16(base.data, 6, U16_MAX))
          [] kind = "size_max" -> with(PatchU16(base.data, 12, U16_MAX))
          [] kind = "count255" -> with(Patch(base.data, 0, 255))
          [] kind = "count2_loc" -> with(Patch(mock(0, U16_MAX, U16_MAX).data, 0, 2))
          [] kind = "count0_header" -> with(Patch(SubSeq(base.data, 1, HEADER_LEN), 0, 0))
          [] kind = "count2_header" -> with(Patch(SubSeq(base.data, 1, HEADER_LEN), 0, 2))
          [] kind = "count0_zeros" -> with(Fill(0, HEADER_LEN))
          [] kind = "sig_off_15" -> with(PatchU16(base.data, 2, HEADER_LEN - 1))
          [] kind = "sig_off_edge" ->
                with(PatchU16(base.data, 2, Len(base.data) - SIG_LEN))
          [] kind = "sig_off_over" ->
                with(PatchU16(base.data, 2, Len(base.data) - SIG_LEN + 1))
          [] kind = "sig_off_max" -> with(PatchU16(base.data, 2, U16_MAX))
          [] kind = "pk_off_low" -> with(PatchU16(base.data, 6, HEADER_LEN - 1))
          [] kind = "pk_off_over" ->
                with(PatchU16(base.data, 6, Len(base.data) - PUBKEY_LEN + 1))
          [] kind = "msg_off_low" -> with(PatchU16(base.data, 10, 0))
          [] kind = "msg_off_max" -> with(PatchU16(base.data, 10, U16_MAX))
          [] kind = "size0" -> with(PatchU16(base.data, 12, 0))
          [] kind = "size42" ->
                create_mock_ed25519_instruction(U16_MAX, U16_MAX, U16_MAX,
                    AUTHORITY, Append(msg, 0), sig)
          [] kind = "size42_pk" ->
                create_mock_ed25519_instruction(U16_MAX, U16_MAX, U16_MAX,
                    OTHER_KEY, Append(msg, 0), Fill(35, 64))
          [] kind = "size40_hash" ->
                create_mock_ed25519_instruction(U16_MAX, U16_MAX, U16_MAX,
                    AUTHORITY, Fill(9, MSG_LEN - 1), sig)
          [] kind = "one_byte" -> with(<< 1 >>)
          [] kind = "all_ff" -> with(Fill(255, Len(base.data)))
          [] kind = "ff_count1" -> with(Patch(Fill(255, Len(base.data)), 0, 1))
          [] kind = "header_17" -> with(SubSeq(base.data, 1, HEADER_LEN + 1))

\* sequences over S of length at most n
RECURSIVE SeqsUpTo(_, _)
SeqsUpTo(S, n) ==
    IF n = 0 THEN { << >> }
    ELSE LET shorter == SeqsUpTo(S, n - 1)
         IN  shorter \cup { Append(q, x) : q \in shorter, x \in S }

\* this program's own instruction, at the current index
OwnInstruction == Instruction(OWN_PROGRAM_ID, << >>, << >>)

\* the transaction with the instructions of kinds `prior` before the
\* current one and those of kinds `after` behind it
Transaction(prior, after, r) ==
    [ ixs |-> [i \in 1..Len(prior) |-> Companion(prior[i], r)]
                \o << OwnInstruction >>
                \o [i \in 1..Len(after) |-> Companion(after[i], r)],
      current_index |-> Len(prior) ]

\* a verify_auth call: the instruction's arguments, the signer and the
\* transaction around it
Request(att, nullifier, domain, prior, after) ==
    [ op |-> "verify_auth",
      verification_result |-> Attestation(att),
      nullifier |-> nullifier,
      domain |-> domain,
      authority |-> AUTHORITY,
      tx |-> Transaction(prior, after, Reference(Attestation(att))) ]

\* requests of the system specification: every nullifier and label with a
\* valid attestation, and every class of failure
SystemRequests ==
    { Request("fresh", n, DomainAb, << "match" >>, << >>) : n \in Nullifiers }
    \cup { Request("fresh", N1, d, << "match" >>, << >>) :
             d \in { DomainFull, DomainCut, DomainEmpty, DomainNotUtf8 } }
    \cup { Request(a, n, DomainAb, << "match" >>, << >>) :
             a \in { "edge", "stale", "flag0", "short" }, n \in { Zero32, N1 } }
    \cup { Request("fresh", N1, DomainAb, p, << >>) :
             p \in { << >>, << "sig" >>, << "loc_sig" >>, << "ts" >>, << "accounts" >> } }

\* requests of the single-call specification: every bundle of scan kinds up
\* to MaxPrior instructions, every instruction kind alone and beside a
\* matching one, every attestation kind
CallRequests ==
    { Request("fresh", N1, DomainAb, p, << >>) : p \in SeqsUpTo(ScanKinds, MaxPrior) }
    \cup { Request("fresh", N1, DomainAb, p, << >>) :
             p \in UNION { { << k >>, << "match", k >>, << k, "match" >> } : k \in IxKinds } }
    \cup { Request(a, N1, DomainAb, p, << >>) :
             a \in AttKinds,
             p \in { << >>, << "match" >>, << "sig" >>, << "ts" >>, << "loc_sig" >> } }
    \cup { Request("fresh", N1, DomainAb, p, a) :
             p \in { << >>, << "sig" >>, << "other" >>, << "match" >> },
             a \in { << "match" >>, << "accounts" >>, << "count0" >>, << "sig", "match" >> } }
    \cup { Request("fresh", N1, DomainEmpty, << "match" >>, << >>),
           Request("fresh", Zero32, DomainAb, << "match" >>, << >>) }

\* application ids
APP_A == Fill(65, 32)

APP_B == Fill(66, 32)

\* two signers other than the attestation authority
USER == Fill(3, 32)

STRANGER == Fill(4, 32)

\* addresses of grant accounts
GrantKeys == { grant_address(n, a) : n \in { N1, N2 }, a \in { APP_A, APP_B } }

\* addresses of access-record accounts (fresh keypairs the caller makes)
ACCESS_1 == Fill(81, 32)

ACCESS_2 == Fill(82, 32)

AccessKeys == { ACCESS_1, ACCESS_2 }

\* ten permissions, the most a grant may hold, and eleven
TenPermissions ==
    << "RevealWalletAddress", "RevealExactBalance", "RevealTokenBalances",
       "RevealNFTList", "RevealTransactionHistory", "RevealStakingPositions",
       "RevealDeFiPositions", "RevealWalletAddress", "RevealExactBalance",
       "RevealTokenBalances" >>

ElevenPermissions == Append(TenPermissions, "RevealNFTList")

\* a grant_permissions call signed by payer
GrantCall(nullifier, app_id, permissions, expires_in, payer) ==
    [ op |-> "grant_permissions", nullifier |-> nullifier, app_id |-> app_id,
      permissions |-> permissions, expires_in |-> expires_in, payer |-> payer ]

\* a revoke_permissions call on the grant account at grant_key
RevokeCall(grant_key, authority) ==
    [ op |-> "revoke_permissions", grant_key |-> grant_key,
      authority |-> authority ]

\* a log_permission_access call creating the access account at access_key
LogCall(access_key, grant_key, permission_used, metadata) ==
    [ op |-> "log_permission_access", access_key |-> access_key,
      grant_key |-> grant_key, permission_used |-> permission_used,
      metadata |-> metadata ]

\* calls of the permission instructions explored in a single step
PermissionCalls ==
    { GrantCall(k[1], k[2], p, e, USER) :
        k \in { grant_address(N1, APP_A), grant_address(N2, APP_B) },
        p \in { << >>, << "RevealWalletAddress" >>, TenPermissions, ElevenPermissions },
        e \in { -1, 0, 1, 2 } }
    \cup { RevokeCall(k, a) :
             k \in { grant_address(N1, APP_A), grant_address(N2, APP_B) },
             a \in { USER, STRANGER } }
    \cup { LogCall(x, k, u, m) :
             x \in AccessKeys,
             k \in { grant_address(N1, APP_A), grant_address(N2, APP_B) },
             u \in { "RevealWalletAddress", "SignTransactions" },
             m \in { << >>, Fill(109, MAX_METADATA_LEN), Fill(109, MAX_METADATA_LEN + 1) } }

(***************************************************************************)
(* State.                                                                  *)
(*   registry  the nullifier account at each nullifier's PDA               *)
(*   clock     Clock::get()?.unix_timestamp                                *)
(*   pending   the submitted instructions not yet run                      *)
(*   last      << >> or the outcome of the instruction just run: its call, *)
(*             clock value, error and the accounts before it               *)
(*   grants    the PermissionGrant account at each grant address           *)
(*   accesses  the PermissionAccess account at each access address         *)
(*   used      history: the decoded attestations of the verify_auth        *)
(*             instructions that succeeded                                 *)
(*   granted_by  history: the signer who paid for each grant account       *)
(***************************************************************************)
VARIABLES registry, clock, pending, last, grants, accesses, used, granted_by

vars == << registry, clock, pending, last, grants, accesses, used, granted_by >>

EmptyRegistry == [n \in Nullifiers |-> NoAccount]

EmptyGrants == [k \in GrantKeys |-> NoGrant]

EmptyAccesses == [x \in AccessKeys |-> NoAccess]

\* no signer: the granter of a grant account that does not exist
NoSigner == << >>

NoGranter == [k \in GrantKeys |-> NoSigner]

Init ==
    /\ registry = EmptyRegistry
    /\ clock = ClockStart
    /\ pending = << >>
    /\ last = << >>
    /\ grants = EmptyGrants
    /\ accesses = EmptyAccesses
    /\ used = { }
    /\ granted_by = NoGranter

\* the clock advances by a second
Tick ==
    /\ pending = << >>
    /\ clock < ClockStart + MaxTicks
    /\ clock' = clock + 1
    /\ last' = << >>
    /\ UNCHANGED << registry, pending, grants, accesses, used, granted_by >>

\* a client submits a transaction holding a verify_auth instruction
Submit ==
    /\ pending = << >>
    /\ \E req \in SystemRequests : pending' = << req >>
    /\ last' = << >>
    /\ UNCHANGED << registry, clock, grants, accesses, used, granted_by >>

\* the sequence q without its element i
Remove(q, i) == SubSeq(q, 1, i - 1) \o SubSeq(q, i + 1, Len(q))

\* what is kept of the instruction just run
Outcome(req, err) ==
    [ req |-> req, now |-> clock, err |-> err, pre |-> registry,
      pre_grants |-> grants, pre_accesses |-> accesses,
      pre_used |-> used, pre_granted_by |-> granted_by ]

\* the runtime runs one submitted verify_auth instruction as one unit
Execute ==
    \E i \in DOMAIN pending :
        /\ pending[i].op = "verify_auth"
        /\ LET req == pending[i]
               res == verify_auth(init_if_needed(registry[req.nullifier]),
                                  req.verification_result, req.nullifier, req.domain,
                                  req.authority, req.tx, clock)
           IN  /\ registry' = commit(registry, req.nullifier, res)
               /\ last' = << Outcome(req, res.err) >>
               /\ used' = IF res.err = "Ok"
                           THEN used \cup { from_instruction_data(req.verification_result).val }
                           ELSE used
        /\ pending' = Remove(pending, i)
        /\ UNCHANGED << clock, grants, accesses, granted_by >>

\* the runtime runs one submitted grant_permissions instruction
ExecuteGrant ==
    \E i \in DOMAIN pending :
        /\ pending[i].op = "grant_permissions"
        /\ LET req == pending[i]
               key == grant_address(req.nullifier, req.app_id)
               res == grant_permissions(grants[key], req.nullifier, req.app_id,
                                        req.permissions, req.expires_in, clock)
           IN  /\ grants' = commit(grants, key, res)
               /\ last' = << Outcome(req, res.err) >>
               /\ granted_by' = IF res.err = "Ok"
                                 THEN [granted_by EXCEPT ![key] = req.payer]
                                 ELSE granted_by
        /\ pending' = Remove(pending, i)
        /\ UNCHANGED << registry, clock, accesses, used >>

\* the runtime runs one submitted revoke_permissions instruction
ExecuteRevoke ==
    \E i \in DOMAIN pending :
        /\ pending[i].op = "revoke_permissions"
        /\ LET req == pending[i]
               res == revoke_permissions(grants[req.grant_key])
           IN  /\ grants' = commit(grants, req.grant_key, res)
               /\ last' = << Outcome(req, res.err) >>
        /\ pending' = Remove(pending, i)
        /\ UNCHANGED << registry, clock, accesses, used, granted_by >>

\* the runtime runs one submitted log_permission_access instruction
ExecuteLog ==
    \E i \in DOMAIN pending :
        /\ pending[i].op = "log_permission_access"
        /\ LET req == pending[i]
               res == log_permission_access(accesses[req.access_key],
                          grants[req.grant_key], req.grant_key,
                          req.permission_used, req.metadata, clock)
           IN  /\ accesses' = commit(accesses, req.access_key, res)
               /\ last' = << Outcome(req, res.err) >>
        /\ pending' = Remove(pending, i)
        /\ UNCHANGED << registry, clock, grants, used, granted_by >>

Next == Tick \/ Submit \/ Execute

Spec == Init /\ [][Next]_vars

\* a registry in which N1 was admitted at ClockStart
RegistryWithN1 ==
    [EmptyRegistry EXCEPT ![N1] =
        NullifierAccount(N1, << 97, 98 >>, ClockStart,
                         ClockStart + DEFAULT_EXPIRY_SECONDS)]

\* the attestations behind the admissions a sampled registry holds: N1 was
\* admitted with the fresh attestation
UsedFor(reg) ==
    IF reg[N1].exists THEN { from_instruction_data(Attestation("fresh")).val } ELSE { }

\* the signer who paid for each grant account of a sampled grant table
GranterOf(table) == [k \in GrantKeys |-> IF table[k].exists THEN USER ELSE NoSigner]

\* one verify_auth call, drawn from CallRequests, at any explored clock
\* value, on the empty registry or on one holding N1
InitCall ==
    /\ registry \in { EmptyRegistry, RegistryWithN1 }
    /\ clock \in ClockStart .. ClockStart + MaxTicks
    /\ pending \in { << req >> : req \in CallRequests }
    /\ last = << >>
    /\ grants = EmptyGrants
    /\ accesses = EmptyAccesses
    /\ used = UsedFor(registry)
    /\ granted_by = NoGranter

SpecCall == InitCall /\ [][Execute]_vars

\* most verify_auth instructions submitted together
MaxConcurrent == 3

\* requests submitted together: a valid one for each nullifier, one more
\* for N1 under another label, and a stale one for N2
ConcurrentRequests ==
    { Request("fresh", n, DomainAb, << "match" >>, << >>) : n \in Nullifiers }
    \cup { Request("fresh", N1, DomainCut, << "match" >>, << >>),
           Request("stale", N2, DomainAb, << "match" >>, << >>) }

\* up to MaxConcurrent verify_auth instructions are in flight at once; the
\* runtime runs them one at a time in any order
InitConcurrent ==
    /\ registry = EmptyRegistry
    /\ clock = ClockStart
    /\ pending \in SeqsUpTo(ConcurrentRequests, MaxConcurrent) \ { << >> }
    /\ last = << >>
    /\ grants = EmptyGrants
    /\ accesses = EmptyAccesses
    /\ used = { }
    /\ granted_by = NoGranter

SpecConcurrent == InitConcurrent /\ [][Execute]_vars

\* the grant account the sampled grant tables hold
GRANT_1 == grant_address(N1, APP_A)

\* grant tables after a grant_permissions for (N1, APP_A) at ClockStart,
\* revoked since or not
GrantTables ==
    { EmptyGrants }
    \cup { [EmptyGrants EXCEPT ![GRANT_1] =
               PermissionGrant(N1, APP_A, p, ClockStart, ClockStart + e, r, BUMP)] :
             p \in { << "RevealWalletAddress" >>, TenPermissions },
             e \in { 0, 1, 2 }, r \in BOOLEAN }

\* access tables: empty, or one use of the grant logged at ClockStart
AccessTables ==
    { EmptyAccesses,
      [EmptyAccesses EXCEPT ![ACCESS_1] =
          PermissionAccess(GRANT_1, ClockStart, "RevealWalletAddress", << 109 >>)] }

\* verify_auth requests explored beside the permission instructions
CoreRequests ==
    { Request("fresh", n, DomainAb, << "match" >>, << >>) : n \in Nullifiers }
    \cup { Request("stale", N1, DomainAb, << "match" >>, << >>) }

\* one instruction of any kind, run on accounts that earlier instructions
\* have left: an access record exists only for a grant that was live when
\* it was logged
InitInstruction ==
    /\ registry \in { EmptyRegistry, RegistryWithN1 }
    /\ clock \in ClockStart .. ClockStart + MaxTicks
    /\ pending \in { << call >> : call \in PermissionCalls \cup CoreRequests }
    /\ last = << >>
    /\ grants \in GrantTables
    /\ accesses \in AccessTables
    /\ used = UsedFor(registry)
    /\ granted_by = GranterOf(grants)
    /\ accesses[ACCESS_1].exists =>
          /\ grants[GRANT_1].exists
          /\ grants[GRANT_1].expires_at > accesses[ACCESS_1].accessed_at

NextInstruction == Execute \/ ExecuteGrant \/ ExecuteRevoke \/ ExecuteLog

SpecInstruction == InitInstruction /\ [][NextInstruction]_vars

\* a sequence of n bytes counting up from first (mod 256)
Ramp(first, n) == [i \in 1..n |-> (first + i - 1) % 256]

\* field values a client encodes: both flags; hashes and signatures of equal
\* and of distinct bytes; timestamps 0, small, with distinct bytes, 2^63 - 1,
\* 2^63 and u64::MAX
EncodeCalls ==
    { [ op |-> "create_instruction_data", is_valid |-> v, proof_hash |-> h,
        timestamp |-> t, signature |-> g ] :
        v \in BOOLEAN,
        h \in { HASH, Zero32, Fill(255, 32), Ramp(200, 32) },
        t \in { U64(0), U64(ClockStart), << 513, 1027, 1541, 2055 >>, I64_MAX,
                << 0, 0, 0, 32768 >>, U64_MAX },
        g \in { SIGNATURE, Fill(0, 64), Ramp(1, 64) } }

\* a client is about to encode one attestation
InitCodec ==
    /\ registry = EmptyRegistry
    /\ clock = ClockStart
    /\ pending \in { << call >> : call \in EncodeCalls }
    /\ last = << >>
    /\ grants = EmptyGrants
    /\ accesses = EmptyAccesses
    /\ used = { }
    /\ granted_by = NoGranter

\* the client encodes the attestation with create_instruction_data and the
\* program decodes the bytes with from_instruction_data
Encode ==
    \E i \in DOMAIN pending :
        /\ pending[i].op = "create_instruction_data"
        /\ LET req  == pending[i]
               data == create_instruction_data(req.is_valid, req.proof_hash,
                                               req.timestamp, req.signature)
           IN  last' = << [ req |-> req, data |-> data,
                            decoded |-> from_instruction_data(data) ] >>
        /\ pending' = Remove(pending, i)
        /\ UNCHANGED << registry, clock, grants, accesses, used, granted_by >>

SpecCodec == InitCodec /\ [][Encode]_vars

\* permission instructions clients submit over time: grants for
\* (N1, APP_A) with two lifetimes, revocations by the granter and by
\* another signer, and uses of the grant logged at either access address
SystemPermissionCalls ==
    { GrantCall(N1, APP_A, << "RevealWalletAddress" >>, e, USER) : e \in { 1, 2 } }
    \cup { RevokeCall(GRANT_1, a) : a \in { USER, STRANGER } }
    \cup { LogCall(x, GRANT_1, u, m) :
             x \in AccessKeys, u \in { "RevealWalletAddress", "SignTransactions" },
             m \in { << >>, << 109 >> } }

\* a client submits a transaction holding a permission instruction
SubmitPermission ==
    /\ pending = << >>
    /\ \E call \in SystemPermissionCalls : pending' = << call >>
    /\ last' = << >>
    /\ UNCHANGED << registry, clock, grants, accesses, used, granted_by >>

NextPermission ==
    Tick \/ SubmitPermission \/ ExecuteGrant \/ ExecuteRevoke \/ ExecuteLog

\* the permission subsystem over time, from no grant and no access record
SpecPermission == Init /\ [][NextPermission]_vars

(***************************************************************************)
(* What the claims speak about, read off the call just run.                *)
(***************************************************************************)
\* the label rule of verify_auth passes
LabelOk(req) ==
    LET n == position_of_zero(req.domain, 0)
    IN  n > 0 /\ n <= 32 /\ from_utf8_ok(Slice(req.domain, 0, n))

Decodes(req) == from_instruction_data(req.verification_result).err = "Ok"

Decoded(req) == from_instruction_data(req.verification_result).val

\* the handler gets as far as the companion scan
ScanReached(req) == LabelOk(req) /\ Decodes(req)

\* 0-based indices of the instructions before the current one
PriorIndices(req) == 0 .. req.tx.current_index - 1

PriorIx(req, i) == req.tx.ixs[i + 1]

\* what the scan does with prior instruction i when it gets to it
StepAt(req, i) ==
    examine(PriorIx(req, i), req.authority, signed_message(Decoded(req)),
            Decoded(req).verifier_signature)

\* ed25519_ix_matches on prior instruction i
MatchAt(req, i) ==
    ed25519_ix_matches(PriorIx(req, i), req.authority,
                       signed_message(Decoded(req)),
                       Decoded(req).verifier_signature)

\* the backward scan gets to prior instruction i
Examined(req, i) ==
    /\ ScanReached(req)
    /\ \A j \in PriorIndices(req) : j > i => StepAt(req, j) = "continue"

\* outcome of the companion match of the call
Verdict(req) == validate_signature(Decoded(req), req.authority, req.tx)

\* the message slice a standard-layout payload carries
CarriedMessage(data) ==
    Slice(data, message_offset(data), message_offset(data) + MSG_LEN)

\* the timestamp is a number below 2^31 and `now` is more than d seconds
\* after it (a timestamp of 2^31 or more is after every explored clock value)
OlderThan(ts, now, d) ==
    /\ ts[3] = 0 /\ ts[4] = 0 /\ ts[2] < 32768
    /\ now - (ts[1] + 65536 * ts[2]) > d

AgeIs(ts, now, d) ==
    /\ ts[3] = 0 /\ ts[4] = 0 /\ ts[2] < 32768
    /\ now - (ts[1] + 65536 * ts[2]) = d

(***************************************************************************)
(* Claims.                                                                 *)
(***************************************************************************)
\* C1: at most one verify_auth call carrying a nullifier N succeeds: a call
\* for a nullifier whose record an earlier call has created does not
\* succeed.
C1_AtMostOnce ==
    \A c \in { last[i] : i \in DOMAIN last } :
        c.pre[c.req.nullifier].exists => c.err # "Ok"

\* C2: the companion instruction that makes a call succeed carries, byte
\* for byte over all 41 bytes, the signed message rebuilt from the
\* attestation: no prior instruction that ed25519_ix_matches accepts carries
\* another message.
C2_MessageEqualsSigned ==
    \A c \in { last[i] : i \in DOMAIN last } :
        ScanReached(c.req) =>
            \A i \in PriorIndices(c.req) :
                StepAt(c.req, i) = "return" =>
                    CarriedMessage(PriorIx(c.req, i).data)
                        = signed_message(Decoded(c.req))

LocalityOff(data) ==
    /\ Len(data) >= HEADER_LEN
    /\ At(data, 0) = 1
    /\ \/ signature_ix_idx(data) # U16_MAX
       \/ public_key_ix_idx(data) # U16_MAX
       \/ message_ix_idx(data) # U16_MAX

\* C4: a payload of at least 16 bytes with count 1 and a locality index
\* other than 0xFFFF fails ed25519_ix_matches with OffsetMismatch, and the
\* call whose scan examines such a facility instruction fails with
\* OffsetMismatch and admits nothing.
C4_LocalityCheck ==
    \A c \in { last[i] : i \in DOMAIN last } :
        ScanReached(c.req) =>
            \A i \in PriorIndices(c.req) :
                LocalityOff(PriorIx(c.req, i).data) =>
                    /\ MatchAt(c.req, i) = Err("OffsetMismatch")
                    /\ ( /\ Examined(c.req, i)
                         /\ PriorIx(c.req, i).program_id = ED25519_PROGRAM_ID
                         /\ PriorIx(c.req, i).accounts = << >> )
                       => c.err = "OffsetMismatch" /\ registry = c.pre

\* C4 witness: the examined instruction matches in every byte but its
\* public-key locality index, and the call failed with OffsetMismatch.
C4_Witness ==
    /\ last # << >>
    /\ last[1].err = "OffsetMismatch"
    /\ LET req == last[1].req
           ix == PriorIx(req, req.tx.current_index - 1)
       IN  /\ req.tx.current_index = 1
           /\ public_key_ix_idx(ix.data) = 0
           /\ [ix EXCEPT !.data = PatchU16(ix.data, 8, U16_MAX)]
                = Companion("match", Decoded(req))

\* C5: when now - timestamp > 300 is_recent fails with ProofExpired and the
\* call admits nothing, whatever the companion instructions are; when
\* now - timestamp = 300 is_recent passes.
C5_Freshness ==
    \A c \in { last[i] : i \in DOMAIN last } :
        Decodes(c.req) =>
            /\ OlderThan(Decoded(c.req).timestamp, c.now, MAX_AGE) =>
                  /\ is_recent(Decoded(c.req), I64(c.now)) = "ProofExpired"
                  /\ c.err # "Ok"
                  /\ registry = c.pre
            /\ AgeIs(Decoded(c.req).timestamp, c.now, MAX_AGE) =>
                  is_recent(Decoded(c.req), I64(c.now)) = "Ok"

\* C5 witness: a stale attestation with a fully matching companion
\* instruction was refused as expired.
C5_Witness ==
    /\ last # << >>
    /\ Decodes(last[1].req)
    /\ OlderThan(Decoded(last[1].req).timestamp, last[1].now, MAX_AGE)
    /\ Verdict(last[1].req) = "Ok"
    /\ last[1].err = "ProofExpired"

\* the same loop run forwards, from index idx up to the current index
RECURSIVE ScanForwardFrom(_, _)
ScanForwardFrom(req, idx) ==
    IF idx >= req.tx.current_index THEN "InvalidProof"
    ELSE IF StepAt(req, idx) = "continue" THEN ScanForwardFrom(req, idx + 1)
    ELSE IF StepAt(req, idx) = "return" THEN "Ok"
    ELSE StepAt(req, idx)

\* prior instructions at which the scan, getting there, stops
Decisive(req) == { i \in PriorIndices(req) : StepAt(req, i) # "continue" }

\* prior instructions that satisfy every companion check
Matching(req) == { i \in PriorIndices(req) : StepAt(req, i) = "return" }

\* prior instructions at which the scan, getting there, fails
Failing(req) == Decisive(req) \ Matching(req)

Highest(S) == CHOOSE i \in S : \A j \in S : j <= i

\* C6 as stated: scanning forwards gives the same outcome as scanning
\* backwards, and the match succeeds whenever some prior instruction
\* satisfies all the checks.
C6_ScanOrderIndependent ==
    \A c \in { last[i] : i \in DOMAIN last } :
        ScanReached(c.req) =>
            /\ Verdict(c.req) = ScanForwardFrom(c.req, 0)
            /\ Matching(c.req) # {} => Verdict(c.req) = "Ok"

\* C6 amended: the outcome is that of the highest-index prior instruction
\* that matches fully or fails a check (InvalidProof when there is none);
\* for bundles in which no prior instruction fails a check, forward and
\* backward scans agree and the match succeeds exactly when some prior
\* instruction satisfies all the checks.
C6_ScanOrderAmended ==
    \A c \in { last[i] : i \in DOMAIN last } :
        ScanReached(c.req) =>
            /\ Decisive(c.req) = {} => Verdict(c.req) = "InvalidProof"
            /\ Decisive(c.req) # {} =>
                  LET top == StepAt(c.req, Highest(Decisive(c.req)))
                  IN  Verdict(c.req) = IF top = "return" THEN "Ok" ELSE top
            /\ Failing(c.req) = {} =>
                  /\ Verdict(c.req) = ScanForwardFrom(c.req, 0)
                  /\ Verdict(c.req) = "Ok" <=> Matching(c.req) # {}

\* C6 witness: the match is the oldest of two prior instructions, the
\* newer one is skipped, and the call succeeded.
C6_Witness ==
    /\ last # << >>
    /\ ScanReached(last[1].req)
    /\ last[1].req.tx.current_index = 2
    /\ StepAt(last[1].req, 1) = "continue"
    /\ StepAt(last[1].req, 0) = "return"
    /\ last[1].err = "Ok"

\* prior instruction i is a facility instruction without accounts, in the
\* standard layout, that differs from a full match in signature bytes only
SignatureOnlyDiffers(req, i) ==
    LET ix == PriorIx(req, i)
    IN  /\ Len(ix.data) >= HEADER_LEN + SIG_LEN
        /\ Slice(ix.data, HEADER_LEN, HEADER_LEN + SIG_LEN)
             # Decoded(req).verifier_signature
        /\ ix = create_mock_ed25519_instruction(U16_MAX, U16_MAX, U16_MAX,
                    req.authority, signed_message(Decoded(req)),
                    Slice(ix.data, HEADER_LEN, HEADER_LEN + SIG_LEN))

\* C7: a candidate whose signature bytes alone differ makes
\* ed25519_ix_matches return false without error and the scan goes on, so
\* that an earlier instruction that matches fully makes the match succeed.
C7_SignatureMismatchSkips ==
    \A c \in { last[i] : i \in DOMAIN last } :
        ScanReached(c.req) =>
            \A i \in PriorIndices(c.req) :
                SignatureOnlyDiffers(c.req, i) =>
                    /\ MatchAt(c.req, i) = Ok(FALSE)
                    /\ StepAt(c.req, i) = "continue"
                    /\ ( /\ Examined(c.req, i)
                         /\ \E k \in Matching(c.req) :
                              /\ k < i
                              /\ \A j \in PriorIndices(c.req) :
                                   (k < j /\ j < i) => StepAt(c.req, j) = "continue" )
                       => Verdict(c.req) = "Ok"

\* C7 witness: the newest prior instruction differs in its signature only,
\* the one before it matches, and the call succeeded.
C7_Witness ==
    /\ last # << >>
    /\ ScanReached(last[1].req)
    /\ last[1].req.tx.current_index = 2
    /\ SignatureOnlyDiffers(last[1].req, 1)
    /\ StepAt(last[1].req, 0) = "return"
    /\ last[1].err = "Ok"

\* C8 as stated: when no prior instruction satisfies all the checks the
\* match fails with the no-valid-companion error (InvalidProof, line 180)
\* and the call admits nothing.
C8_NoMatchIsNoValid ==
    \A c \in { last[i] : i \in DOMAIN last } :
        (ScanReached(c.req) /\ Matching(c.req) = {}) =>
            /\ Verdict(c.req) = "InvalidProof"
            /\ c.err = "InvalidProof"
            /\ registry = c.pre

\* C8 amended: when no prior instruction satisfies all the checks the match
\* fails and the call admits nothing; the error is the no-valid-companion
\* error (InvalidProof) when every prior instruction is skipped, and the
\* error of the highest-index failing facility instruction otherwise.
C8_NoMatchFails ==
    \A c \in { last[i] : i \in DOMAIN last } :
        (ScanReached(c.req) /\ Matching(c.req) = {}) =>
            /\ Verdict(c.req) # "Ok"
            /\ c.err = Verdict(c.req)
            /\ registry = c.pre
            /\ Failing(c.req) = {} => Verdict(c.req) = "InvalidProof"
            /\ Failing(c.req) # {} =>
                  Verdict(c.req) = StepAt(c.req, Highest(Failing(c.req)))

\* C8 witness: two candidates, both with a signature that differs, and the
\* call failed with InvalidProof.
C8_Witness ==
    /\ last # << >>
    /\ ScanReached(last[1].req)
    /\ last[1].req.tx.current_index = 2
    /\ \A i \in PriorIndices(last[1].req) : SignatureOnlyDiffers(last[1].req, i)
    /\ last[1].err = "InvalidProof"
    /\ registry = last[1].pre

\* the transaction without prior instruction i
WithoutPrior(tx, i) ==
    [ ixs |-> SubSeq(tx.ixs, 1, i) \o SubSeq(tx.ixs, i + 2, Len(tx.ixs)),
      current_index |-> tx.current_index - 1 ]

\* C9: an instruction of another program is skipped, so that the outcome is
\* the one the bundle has without it; a facility instruction that
\* references an account fails the match with BadEd25519Accounts as soon as
\* the scan gets to it, whatever its payload.
C9_CandidateSelection ==
    \A c \in { last[i] : i \in DOMAIN last } :
        ScanReached(c.req) =>
            \A i \in PriorIndices(c.req) :
                /\ PriorIx(c.req, i).program_id # ED25519_PROGRAM_ID =>
                      /\ StepAt(c.req, i) = "continue"
                      /\ Verdict(c.req)
                           = validate_signature(Decoded(c.req), c.req.authority,
                                                WithoutPrior(c.req.tx, i))
                /\ ( /\ PriorIx(c.req, i).program_id = ED25519_PROGRAM_ID
                     /\ PriorIx(c.req, i).accounts # << >>
                     /\ Examined(c.req, i) )
                   => /\ Verdict(c.req) = "BadEd25519Accounts"
                      /\ c.err = "BadEd25519Accounts"
                      /\ registry = c.pre

\* C9 witness: a facility instruction with an account and an empty payload
\* was examined and the call failed with BadEd25519Accounts.
C9_Witness ==
    /\ last # << >>
    /\ ScanReached(last[1].req)
    /\ last[1].req.tx.current_index = 1
    /\ PriorIx(last[1].req, 0).program_id = ED25519_PROGRAM_ID
    /\ PriorIx(last[1].req, 0).accounts # << >>
    /\ PriorIx(last[1].req, 0).data = << >>
    /\ last[1].err = "BadEd25519Accounts"

\* the freshness check of the call passes
Recent(c) == is_recent(Decoded(c.req), I64(c.now)) = "Ok"

\* C10 as stated: the steps run in the order decode, freshness, validity
\* flag, companion signature, admission, and the error is that of the
\* earliest failing step in this order.
C10_SpecOrder ==
    \A c \in { last[i] : i \in DOMAIN last } :
        LabelOk(c.req) =>
            /\ ~ Decodes(c.req) => c.err = "InvalidProof"
            /\ (Decodes(c.req) /\ ~ Recent(c)) => c.err = "ProofExpired"
            /\ (Decodes(c.req) /\ Recent(c) /\ ~ Decoded(c.req).is_valid)
                  => c.err = "InvalidProof"
            /\ ( /\ Decodes(c.req) /\ Recent(c) /\ Decoded(c.req).is_valid
                 /\ Verdict(c.req) # "Ok" ) => c.err = Verdict(c.req)
            /\ ( /\ Decodes(c.req) /\ Recent(c) /\ Decoded(c.req).is_valid
                 /\ Verdict(c.req) = "Ok" )
                  => c.err \in { "Ok", "DuplicateNullifier" }

\* C10 amended: the steps run in the order label, decode, companion
\* signature, freshness, validity flag, admission, and the error is that of
\* the earliest failing step in this order.
C10_CodeOrder ==
    \A c \in { last[i] : i \in DOMAIN last } :
        /\ ~ LabelOk(c.req) => c.err = "DomainTooLong"
        /\ (LabelOk(c.req) /\ ~ Decodes(c.req)) => c.err = "InvalidProof"
        /\ (ScanReached(c.req) /\ Verdict(c.req) # "Ok")
              => c.err = Verdict(c.req)
        /\ (ScanReached(c.req) /\ Verdict(c.req) = "Ok" /\ ~ Recent(c))
              => c.err = "ProofExpired"
        /\ ( /\ ScanReached(c.req) /\ Verdict(c.req) = "Ok" /\ Recent(c)
             /\ ~ Decoded(c.req).is_valid ) => c.err = "InvalidProof"
        /\ ( /\ ScanReached(c.req) /\ Verdict(c.req) = "Ok" /\ Recent(c)
             /\ Decoded(c.req).is_valid )
              => c.err \in { "Ok", "DuplicateNullifier" }

\* C10 witness: a stale attestation whose companion instruction has a wrong
\* locality index failed with the companion error, not the expired one.
C10_Witness ==
    /\ last # << >>
    /\ ScanReached(last[1].req)
    /\ ~ Recent(last[1])
    /\ Verdict(last[1].req) = "OffsetMismatch"
    /\ last[1].err = "OffsetMismatch"

\* the step of verify_auth at which request req, run at clock value now with
\* outcome err, fails ("none" when it succeeds)
FailureClass(req, now, err) ==
    IF ~ LabelOk(req) THEN "label"
    ELSE IF ~ Decodes(req) THEN "decode"
    ELSE IF Verdict(req) # "Ok"
        THEN IF Decisive(req) = {} THEN "no_companion" ELSE "companion_check"
    ELSE IF is_recent(Decoded(req), I64(now)) # "Ok" THEN "stale"
    ELSE IF ~ Decoded(req).is_valid THEN "not_valid"
    ELSE IF err # "Ok" THEN "duplicate"
    ELSE "none"

\* the error of verify_auth for request req on a nullifier not yet admitted
ErrorOf(req, now) ==
    verify_auth(init_if_needed(NoAccount), req.verification_result,
                req.nullifier, req.domain, req.authority, req.tx, now).err

\* one request of each class the claim names: a 104-byte buffer, a false
\* validity flag with a matching companion, and no prior instruction at all
ClassExamples ==
    { Request("short", N1, DomainAb, << "match" >>, << >>),
      Request("flag0", N1, DomainAb, << "match" >>, << >>),
      Request("fresh", N1, DomainAb, << >>, << >>) }

\* C11: failures of different classes have different error codes: the error
\* of a failing call differs from the error of a decode failure, of a false
\* validity flag and of a missing companion instruction, unless the call
\* fails in that same class.
C11_DistinctErrors ==
    \A c \in { last[i] : i \in DOMAIN last } :
        c.err # "Ok" =>
            \A ex \in ClassExamples :
                FailureClass(ex, c.now, ErrorOf(ex, c.now))
                    # FailureClass(c.req, c.now, c.err)
                  => ErrorOf(ex, c.now) # c.err

\* C12: from_instruction_data fails for a buffer shorter than 105 bytes and
\* succeeds for one of 105 bytes or more; the record then holds byte 0 as
\* the flag, bytes 1-32 as the hash, bytes 33-40 as the little-endian
\* timestamp and bytes 41-104 as the signature, and every buffer with the
\* same first 105 bytes decodes to the same record.
C12_DecoderLength ==
    \A c \in { last[i] : i \in DOMAIN last } :
        LET data == c.req.verification_result
            d == from_instruction_data(data)
        IN  /\ Len(data) < 105 => d.err # "Ok"
            /\ Len(data) >= 105 =>
                  /\ d.err = "Ok"
                  /\ d.val.is_valid = (data[1] = 1)
                  /\ d.val.proof_hash = [i \in 1..32 |-> data[i + 1]]
                  /\ d.val.timestamp
                       = [k \in 1..4 |-> data[32 + 2 * k] + 256 * data[33 + 2 * k]]
                  /\ d.val.verifier_signature = [i \in 1..64 |-> data[i + 41]]
                  /\ \A tail \in { << >>, << 0 >>, << 255, 1 >> } :
                        from_instruction_data(SubSeq(data, 1, 105) \o tail) = d

\* C12 witness: a buffer of more than 105 bytes was decoded as its first
\* 105 bytes and the call was admitted.
C12_Witness ==
    /\ last # << >>
    /\ Len(last[1].req.verification_result) > 105
    /\ Decodes(last[1].req)
    /\ Decoded(last[1].req)
         = from_instruction_data(SubSeq(last[1].req.verification_result, 1, 105)).val
    /\ last[1].err = "Ok"

\* C13: once a nullifier record exists, no step changes its nullifier,
\* label, created_at or expires_at.
C13_RecordImmutable ==
    [][\A n \in Nullifiers : registry[n].exists => registry'[n] = registry[n]]_vars

\* the prefix of a buffer before its first zero byte, all of it when it
\* holds none
LabelOf(buffer) ==
    LET zeros == { i \in 1..Len(buffer) : buffer[i] = 0 }
    IN  IF zeros = {} THEN buffer
        ELSE SubSeq(buffer, 1, (CHOOSE i \in zeros : \A j \in zeros : i <= j) - 1)

\* C14: a successful verify_auth with nullifier N, label buffer D and clock
\* value now leaves at N's key the record (N, D trimmed at its first zero
\* byte, now, now + 2592000), and every stored record has
\* expires_at = created_at + 2592000.
C14_RecordContents ==
    /\ \A c \in { last[i] : i \in DOMAIN last } :
          (c.req.op = "verify_auth" /\ c.err = "Ok") =>
              registry[c.req.nullifier]
                = [ exists |-> TRUE, nullifier |-> c.req.nullifier,
                    domain |-> LabelOf(c.req.domain), created_at |-> c.now,
                    expires_at |-> c.now + 2592000 ]
    /\ \A n \in Nullifiers :
          registry[n].exists =>
              registry[n].expires_at = registry[n].created_at + 2592000

\* C14 witness: a call whose label buffer holds bytes after its first zero
\* succeeded after the clock had advanced.
C14_Witness ==
    /\ last # << >>
    /\ last[1].err = "Ok"
    /\ last[1].req.domain = DomainCut
    /\ last[1].now > ClockStart
    /\ registry[last[1].req.nullifier].domain = << 97 >>
    /\ registry[last[1].req.nullifier].created_at = last[1].now

\* prior instruction i is a facility instruction without accounts in the
\* standard layout (signature, public key, message after the header)
StandardLayout(req, i) ==
    LET ix == PriorIx(req, i)
    IN  /\ Len(ix.data) = HEADER_LEN + SIG_LEN + PUBKEY_LEN + MSG_LEN
        /\ ix = create_mock_ed25519_instruction(U16_MAX, U16_MAX, U16_MAX,
                    Slice(ix.data, 80, 112), Slice(ix.data, 112, 153),
                    Slice(ix.data, 16, 80))

\* which of hash, flag, timestamp, key and signature of prior instruction i
\* differ from those of a full match
Differing(req, i) ==
    LET d == PriorIx(req, i).data
        m == signed_message(Decoded(req))
    IN  { f \in { "hash", "flag", "timestamp", "key", "signature" } :
            \/ f = "hash" /\ Slice(d, 112, 144) # Slice(m, 0, 32)
            \/ f = "flag" /\ Slice(d, 144, 145) # Slice(m, 32, 33)
            \/ f = "timestamp" /\ Slice(d, 145, 153) # Slice(m, 33, 41)
            \/ f = "key" /\ Slice(d, 80, 112) # req.authority
            \/ f = "signature" /\ Slice(d, 16, 80) # Decoded(req).verifier_signature }

\* the error C15 names for the fields that differ
C15_Expected(fields) ==
    IF "hash" \in fields THEN "ProofHashMismatch"
    ELSE IF "flag" \in fields THEN "IsValidMismatch"
    ELSE "AuthorityMismatch"

\* C15: a companion instruction that differs from a full match only in the
\* hash part of its message fails the match with ProofHashMismatch, only in
\* the flag byte with IsValidMismatch, only in the public key with
\* AuthorityMismatch, and in both hash and flag with ProofHashMismatch; the
\* call whose scan gets to it fails with that error.
C15_SingleFieldMismatch ==
    \A c \in { last[i] : i \in DOMAIN last } :
        ScanReached(c.req) =>
            \A i \in PriorIndices(c.req) :
                ( /\ StandardLayout(c.req, i)
                  /\ Differing(c.req, i)
                       \in { { "hash" }, { "flag" }, { "key" }, { "hash", "flag" } } )
                => /\ MatchAt(c.req, i) = Err(C15_Expected(Differing(c.req, i)))
                   /\ Examined(c.req, i) =>
                         /\ c.err = C15_Expected(Differing(c.req, i))
                         /\ registry = c.pre

\* C15 witness: the only prior instruction differs in hash and flag, and
\* the call failed with ProofHashMismatch.
C15_Witness ==
    /\ last # << >>
    /\ ScanReached(last[1].req)
    /\ last[1].req.tx.current_index = 1
    /\ StandardLayout(last[1].req, 0)
    /\ Differing(last[1].req, 0) = { "hash", "flag" }
    /\ last[1].err = "ProofHashMismatch"

\* C16: of the requests submitted together, run one at a time in any
\* order, at most one creates the record of a given nullifier (a request
\* for a nullifier whose record exists does not succeed), and a request
\* that passes every check succeeds when its nullifier has no record yet,
\* whatever was run before it for other nullifiers.
C16_OneCreatorPerKey ==
    \A c \in { last[i] : i \in DOMAIN last } :
        /\ c.pre[c.req.nullifier].exists => c.err # "Ok"
        /\ ( /\ ~ c.pre[c.req.nullifier].exists
             /\ FailureClass(c.req, c.now, "Ok") = "none" ) => c.err = "Ok"

\* C17: a verify_auth call succeeds only if byte 0 of the attestation is
\* exactly 1; with any other byte 0 the call fails and creates no record,
\* also when a companion instruction matches the message with flag byte 0.
C17_ValidityFlag ==
    \A c \in { last[i] : i \in DOMAIN last } :
        LET att == c.req.verification_result
        IN  /\ c.err = "Ok" => (Len(att) >= 1 /\ att[1] = 1)
            /\ (Len(att) >= 1 /\ att[1] # 1) =>
                  /\ c.err # "Ok"
                  /\ registry = c.pre

\* C17 witness: byte 0 is 2, the companion instruction carries the message
\* with flag byte 0 and matches, the attestation is fresh, and the call
\* failed with InvalidProof on an empty registry.
C17_Witness ==
    /\ last # << >>
    /\ ScanReached(last[1].req)
    /\ last[1].req.verification_result[1] = 2
    /\ last[1].req.tx.current_index = 1
    /\ StepAt(last[1].req, 0) = "return"
    /\ CarriedMessage(PriorIx(last[1].req, 0).data)[33] = 0
    /\ Recent(last[1])
    /\ ~ last[1].pre[last[1].req.nullifier].exists
    /\ last[1].err = "InvalidProof"
    /\ registry = last[1].pre

C19_RegistryOwnership ==
    \A c \in { last[i] : i \in DOMAIN last } :
        /\ c.req.op # "verify_auth" => registry = c.pre
        /\ c.req.op = "verify_auth" =>
              /\ \A n \in Nullifiers \ { c.req.nullifier } : registry[n] = c.pre[n]
              /\ grants = c.pre_grants
              /\ accesses = c.pre_accesses

\* C19 witness: a verify_auth call for N2 succeeded beside the record of
\* N1, a grant and an access record, and left them as they were.
C19_Witness ==
    /\ last # << >>
    /\ last[1].req.op = "verify_auth"
    /\ last[1].req.nullifier = N2
    /\ last[1].err = "Ok"
    /\ registry[N2].exists
    /\ last[1].pre[N1].exists
    /\ registry[N1] = last[1].pre[N1]
    /\ grants[GRANT_1].exists
    /\ accesses[ACCESS_1].exists

\* C20: the label is the prefix of the 32-byte buffer before its first zero
\* byte; a call whose buffer starts with a zero byte fails with
\* DomainTooLong and stores nothing, a successful call stores that prefix,
\* and every stored label has between 1 and 32 bytes.
C20_LabelRule ==
    /\ \A c \in { last[i] : i \in DOMAIN last } :
          /\ c.req.domain[1] = 0 =>
                (c.err = "DomainTooLong" /\ registry = c.pre)
          /\ c.err = "Ok" =>
                registry[c.req.nullifier].domain = LabelOf(c.req.domain)
    /\ \A n \in Nullifiers :
          registry[n].exists =>
              (Len(registry[n].domain) >= 1 /\ Len(registry[n].domain) <= 32)

\* C20 witness: a record with a 32-byte label is stored, and a call with an
\* all-zero label buffer and an otherwise valid request has just failed
\* with DomainTooLong.
C20_Witness ==
    /\ last # << >>
    /\ last[1].req.domain = DomainEmpty
    /\ Verdict(last[1].req) = "Ok"
    /\ last[1].err = "DomainTooLong"
    /\ \E n \in Nullifiers : registry[n].exists /\ Len(registry[n].domain) = 32

\* C21: the age never wraps: for every u64 timestamp and every clock value
\* is_recent rejects exactly when the mathematical difference now - timestamp
\* is above 300; a timestamp at or after now, 2^63 and more included, passes.
C21_AgeNeverWraps ==
    \A c \in { last[i] : i \in DOMAIN last } :
        (c.req.op = "verify_auth" /\ Decodes(c.req)) =>
            (is_recent(Decoded(c.req), I64(c.now)) = "ProofExpired"
                <=> OlderThan(Decoded(c.req).timestamp, c.now, MAX_AGE))

\* C22: an attestation (same hash, flag, timestamp and signature) that one
\* successful verify_auth has used cannot complete a second one, for the same
\* nullifier or for another: the second instruction fails.
C22_SignatureUsedOnce ==
    \A c \in { last[i] : i \in DOMAIN last } :
        (/\ c.req.op = "verify_auth"
         /\ Decodes(c.req)
         /\ Decoded(c.req) \in c.pre_used) => c.err # "Ok"

\* the transaction cut off behind the current instruction
UpToCurrent(tx) ==
    [ ixs |-> SubSeq(tx.ixs, 1, tx.current_index + 1),
      current_index |-> tx.current_index ]

\* 0-based indices of the instructions behind the current one
LaterIndices(req) == req.tx.current_index + 1 .. Len(req.tx.ixs) - 1

\* C23: only instructions at an index strictly below the current one are
\* examined: the outcome of the companion match is that of the transaction
\* cut off behind the current instruction, and when no instruction before
\* the current one is accepted the call fails, whatever comes behind it.
C23_OnlyPriorExamined ==
    \A c \in { last[i] : i \in DOMAIN last } :
        (c.req.op = "verify_auth" /\ ScanReached(c.req)) =>
            /\ Verdict(c.req)
                  = validate_signature(Decoded(c.req), c.req.authority,
                                       UpToCurrent(c.req.tx))
            /\ (\A i \in PriorIndices(c.req) : StepAt(c.req, i) # "return") =>
                  /\ Verdict(c.req) # "Ok"
                  /\ c.err # "Ok"
                  /\ registry = c.pre

\* C23 witness: the only matching Ed25519 instruction of the transaction
\* came behind the verify_auth instruction and the call failed.
C23_Witness ==
    /\ last # << >>
    /\ last[1].req.op = "verify_auth"
    /\ ScanReached(last[1].req)
    /\ \E i \in LaterIndices(last[1].req) :
          last[1].req.tx.ixs[i + 1]
              = Companion("match", Decoded(last[1].req))
    /\ \A i \in PriorIndices(last[1].req) : StepAt(last[1].req, i) # "return"
    /\ last[1].err = "InvalidProof"
    /\ registry = last[1].pre

\* the payload of prior instruction i
PayloadAt(req, i) == PriorIx(req, i).data

\* prior instruction i is examined and is a facility instruction without
\* accounts, so that the scan hands its payload to ed25519_ix_matches
Parsed(req, i) ==
    /\ Examined(req, i)
    /\ PriorIx(req, i).program_id = ED25519_PROGRAM_ID
    /\ PriorIx(req, i).accounts = << >>

\* C24: a payload of at least 16 bytes whose byte 0 is not exactly 1 makes
\* ed25519_ix_matches fail with InvalidSignatureCount whatever the rest of
\* the payload holds, and the call that gets to it fails with that error.
C24_SignatureCount ==
    \A c \in { last[i] : i \in DOMAIN last } :
        (c.req.op = "verify_auth" /\ ScanReached(c.req)) =>
            \A i \in PriorIndices(c.req) :
                (/\ Len(PayloadAt(c.req, i)) >= 16
                 /\ PayloadAt(c.req, i)[1] # 1) =>
                    /\ MatchAt(c.req, i).err = "InvalidSignatureCount"
                    /\ Parsed(c.req, i) =>
                          /\ c.err = "InvalidSignatureCount"
                          /\ registry = c.pre

\* C24 witness: a payload with count 2 and a wrong locality field was
\* refused for its count.
C24_Witness ==
    /\ last # << >>
    /\ last[1].req.op = "verify_auth"
    /\ ScanReached(last[1].req)
    /\ \E i \in PriorIndices(last[1].req) :
          /\ Parsed(last[1].req, i)
          /\ Len(PayloadAt(last[1].req, i)) >= 16
          /\ PayloadAt(last[1].req, i)[1] = 2
          /\ ~ locality_check(PayloadAt(last[1].req, i))
    /\ last[1].err = "InvalidSignatureCount"

\* bytes i and i + 1 (0-based) of a payload as a little-endian u16
FieldAt(data, i) == data[i + 1] + 256 * data[i + 2]

\* the payload has count 1 and its three locality fields are 0xFFFF
CountAndLocalityPass(data) ==
    /\ Len(data) >= 16
    /\ data[1] = 1
    /\ FieldAt(data, 4) = 65535
    /\ FieldAt(data, 8) = 65535
    /\ FieldAt(data, 14) = 65535

\* an offset is below 16, or a declared slice ends behind the payload
OutOfBounds(data) ==
    \/ FieldAt(data, 2) < 16
    \/ FieldAt(data, 6) < 16
    \/ FieldAt(data, 10) < 16
    \/ Len(data) < FieldAt(data, 2) + 64
    \/ Len(data) < FieldAt(data, 6) + 32
    \/ Len(data) < FieldAt(data, 10) + FieldAt(data, 12)

\* C25: a payload shorter than 16 bytes, and a payload with count 1 and
\* locality fields 0xFFFF in which an offset is below 16 or a declared slice
\* ends behind the payload, make ed25519_ix_matches fail with
\* InvalidInstructionData; a payload within bounds does not fail with it.
C25_BoundsChecks ==
    \A c \in { last[i] : i \in DOMAIN last } :
        (c.req.op = "verify_auth" /\ ScanReached(c.req)) =>
            \A i \in PriorIndices(c.req) :
                LET data == PayloadAt(c.req, i)
                    bad  == \/ Len(data) < 16
                            \/ CountAndLocalityPass(data) /\ OutOfBounds(data)
                IN  /\ bad =>
                          /\ MatchAt(c.req, i).err = "InvalidInstructionData"
                          /\ Parsed(c.req, i) =>
                                /\ c.err = "InvalidInstructionData"
                                /\ registry = c.pre
                    /\ (CountAndLocalityPass(data) /\ ~ OutOfBounds(data)) =>
                          MatchAt(c.req, i).err # "InvalidInstructionData"

\* C25 witness: a payload whose only flaw is a public-key offset below 16
\* was refused as invalid instruction data.
C25_Witness ==
    /\ last # << >>
    /\ last[1].req.op = "verify_auth"
    /\ ScanReached(last[1].req)
    /\ \E i \in PriorIndices(last[1].req) :
          LET data == PayloadAt(last[1].req, i)
          IN  /\ Parsed(last[1].req, i)
              /\ CountAndLocalityPass(data)
              /\ FieldAt(data, 2) >= 16
              /\ FieldAt(data, 6) < 16
              /\ FieldAt(data, 10) >= 16
              /\ Len(data) >= FieldAt(data, 2) + 64
              /\ Len(data) >= FieldAt(data, 10) + FieldAt(data, 12)
    /\ last[1].err = "InvalidInstructionData"

\* C26: a payload that passes the count, locality and bounds checks and
\* declares a message size other than 41 makes ed25519_ix_matches fail with
\* InvalidMessageSize whatever its hash, flag, key and signature are; no
\* instruction with a declared size other than 41 is accepted.
C26_MessageSize ==
    \A c \in { last[i] : i \in DOMAIN last } :
        (c.req.op = "verify_auth" /\ ScanReached(c.req)) =>
            \A i \in PriorIndices(c.req) :
                LET data == PayloadAt(c.req, i)
                IN  /\ (/\ CountAndLocalityPass(data)
                         /\ ~ OutOfBounds(data)
                         /\ FieldAt(data, 12) # 41) =>
                            /\ MatchAt(c.req, i).err = "InvalidMessageSize"
                            /\ Parsed(c.req, i) =>
                                  /\ c.err = "InvalidMessageSize"
                                  /\ registry = c.pre
                    /\ StepAt(c.req, i) = "return" =>
                          (Len(data) >= 16 /\ FieldAt(data, 12) = 41)

\* C26 witness: a payload carrying the signed message followed by one more
\* byte, with the right key and signature, was refused for its size of 42.
C26_Witness ==
    /\ last # << >>
    /\ last[1].req.op = "verify_auth"
    /\ ScanReached(last[1].req)
    /\ \E i \in PriorIndices(last[1].req) :
          LET data == PayloadAt(last[1].req, i)
          IN  /\ Parsed(last[1].req, i)
              /\ CountAndLocalityPass(data)
              /\ ~ OutOfBounds(data)
              /\ FieldAt(data, 12) = 42
              /\ CarriedMessage(data) = signed_message(Decoded(last[1].req))
              /\ Slice(data, FieldAt(data, 6), FieldAt(data, 6) + 32)
                    = last[1].req.authority
              /\ Slice(data, FieldAt(data, 2), FieldAt(data, 2) + 64)
                    = Decoded(last[1].req).verifier_signature
    /\ last[1].err = "InvalidMessageSize"

\* C27: the decoder accepts only 0 and 1 in byte 0 of the attestation: a
\* buffer of 105 bytes or more whose byte 0 holds any other value is
\* rejected as malformed by from_instruction_data.
C27_StrictFlagDecoding ==
    \A c \in { last[i] : i \in DOMAIN last } :
        (/\ c.req.op = "verify_auth"
         /\ Len(c.req.verification_result) >= 105
         /\ c.req.verification_result[1] \notin { 0, 1 }) =>
            from_instruction_data(c.req.verification_result).err # "Ok"

\* C28: revocation is permanent: a successful revoke_permissions leaves the
\* grant's revoked flag true, no step of any instruction (a new
\* grant_permissions for the same nullifier and application included) sets
\* a true flag back to false or removes the grant, and every later
\* log_permission_access on the grant fails, with PermissionRevoked when it
\* gets to the handler.
C28_RevocationPermanent ==
    /\ [](\A c \in { last[i] : i \in DOMAIN last } :
            /\ (c.req.op = "revoke_permissions" /\ c.err = "Ok") =>
                  (grants[c.req.grant_key].exists /\ grants[c.req.grant_key].revoked)
            /\ (/\ c.req.op = "log_permission_access"
                 /\ c.pre_grants[c.req.grant_key].exists
                 /\ c.pre_grants[c.req.grant_key].revoked) =>
                    /\ c.err # "Ok"
                    /\ accesses = c.pre_accesses
                    /\ ~ c.pre_accesses[c.req.access_key].exists =>
                          c.err = "PermissionRevoked")
    /\ [][\A k \in GrantKeys :
            (grants[k].exists /\ grants[k].revoked) =>
                (grants'[k].exists /\ grants'[k].revoked)]_vars

\* C28 witness: after a revocation, a new grant_permissions for the same
\* nullifier and application was refused and the flag stayed true.
C28_Witness ==
    /\ last # << >>
    /\ last[1].req.op = "grant_permissions"
    /\ last[1].pre_grants[grant_address(last[1].req.nullifier, last[1].req.app_id)].revoked
    /\ last[1].err # "Ok"
    /\ grants[grant_address(last[1].req.nullifier, last[1].req.app_id)].revoked

\* C29: only the signer who paid for a grant can revoke it: a
\* revoke_permissions signed by anyone else fails with
\* UnauthorizedRevocation and leaves the grant's revoked flag as it was.
C29_RevocationAuthority ==
    \A c \in { last[i] : i \in DOMAIN last } :
        (/\ c.req.op = "revoke_permissions"
         /\ c.pre_grants[c.req.grant_key].exists
         /\ c.req.authority # c.pre_granted_by[c.req.grant_key]) =>
            /\ c.err = "UnauthorizedRevocation"
            /\ grants[c.req.grant_key].revoked
                  = c.pre_grants[c.req.grant_key].revoked

\* C30: grant_permissions with more than 10 capabilities fails with
\* TooManyPermissions and creates nothing; with at most 10 it stores the
\* nullifier, application id and capability set given, granted_at = now,
\* expires_at = now + expires_in and revoked = false; on an existing grant
\* for the same (nullifier, application id) it fails and overwrites
\* nothing; every stored grant holds at most 10 capabilities.
C30_GrantCreation ==
    /\ \A k \in GrantKeys :
          grants[k].exists => Len(grants[k].permissions) <= 10
    /\ \A c \in { last[i] : i \in DOMAIN last } :
          c.req.op = "grant_permissions" =>
              LET key == << c.req.nullifier, c.req.app_id >>
              IN  /\ c.pre_grants[key].exists =>
                        (c.err # "Ok" /\ grants = c.pre_grants)
                  /\ (~ c.pre_grants[key].exists /\ Len(c.req.permissions) > 10) =>
                        (c.err = "TooManyPermissions" /\ grants = c.pre_grants)
                  /\ (~ c.pre_grants[key].exists /\ Len(c.req.permissions) <= 10) =>
                        /\ c.err = "Ok"
                        /\ grants[key].exists
                        /\ grants[key].nullifier = c.req.nullifier
                        /\ grants[key].app_id = c.req.app_id
                        /\ grants[key].permissions = c.req.permissions
                        /\ grants[key].granted_at = c.now
                        /\ grants[key].expires_at = c.now + c.req.expires_in
                        /\ grants[key].revoked = FALSE
                        /\ \A k \in GrantKeys \ { key } : grants[k] = c.pre_grants[k]

\* C30 witness: a grant of exactly ten capabilities was created.
C30_Witness ==
    /\ last # << >>
    /\ last[1].req.op = "grant_permissions"
    /\ Len(last[1].req.permissions) = 10
    /\ last[1].err = "Ok"
    /\ ~ last[1].pre_grants[<< last[1].req.nullifier, last[1].req.app_id >>].exists
    /\ grants[<< last[1].req.nullifier, last[1].req.app_id >>].permissions
          = last[1].req.permissions

\* the access records that exist in an access table
Records(table) == { x \in DOMAIN table : table[x].exists }

\* C31: the access log is append-only: a successful log_permission_access
\* adds exactly one new access record holding the grant's key, accessed_at =
\* now, the capability used and the metadata; no step of any instruction
\* modifies or removes an existing access record, and the number of access
\* records never decreases.
C31_AppendOnlyLog ==
    /\ [](\A c \in { last[i] : i \in DOMAIN last } :
            (c.req.op = "log_permission_access" /\ c.err = "Ok") =>
                /\ ~ c.pre_accesses[c.req.access_key].exists
                /\ Records(accesses) = Records(c.pre_accesses) \cup { c.req.access_key }
                /\ Cardinality(Records(accesses))
                      = Cardinality(Records(c.pre_accesses)) + 1
                /\ accesses[c.req.access_key]
                      = PermissionAccess(c.req.grant_key, c.now,
                                         c.req.permission_used, c.req.metadata)
                /\ \A x \in Records(c.pre_accesses) : accesses[x] = c.pre_accesses[x])
    /\ [][/\ \A x \in Records(accesses) : accesses'[x] = accesses[x]
           /\ Cardinality(Records(accesses')) >= Cardinality(Records(accesses))]_vars

\* C31 witness: a second access record was added beside an earlier one,
\* which is still as it was logged.
C31_Witness ==
    /\ last # << >>
    /\ last[1].req.op = "log_permission_access"
    /\ last[1].err = "Ok"
    /\ Cardinality(Records(last[1].pre_accesses)) = 1
    /\ Cardinality(Records(accesses)) = 2
    /\ \A x \in Records(last[1].pre_accesses) : accesses[x] = last[1].pre_accesses[x]

\* C32: encode/decode round trip: create_instruction_data returns exactly
\* 105 bytes, from_instruction_data applied to them returns the same
\* is_valid, proof_hash, timestamp and signature, and byte 0 is 1 when
\* is_valid is true and 0 otherwise.
C32_RoundTrip ==
    \A c \in { last[i] : i \in DOMAIN last } :
        c.req.op = "create_instruction_data" =>
            /\ Len(c.data) = 105
            /\ c.data[1] = (IF c.req.is_valid THEN 1 ELSE 0)
            /\ c.decoded.err = "Ok"
            /\ c.decoded.val.is_valid = c.req.is_valid
            /\ c.decoded.val.proof_hash = c.req.proof_hash
            /\ c.decoded.val.timestamp = c.req.timestamp
            /\ c.decoded.val.verifier_signature = c.req.signature

\* C32 witness: an attestation with is_valid = false, a timestamp and a
\* signature of distinct bytes was encoded and decoded back.
C32_Witness ==
    /\ last # << >>
    /\ last[1].req.op = "create_instruction_data"
    /\ ~ last[1].req.is_valid
    /\ last[1].req.timestamp = << 513, 1027, 1541, 2055 >>
    /\ last[1].req.signature = Ramp(1, 64)
    /\ Slice(last[1].data, 33, 41) = << 1, 2, 3, 4, 5, 6, 7, 8 >>
    /\ last[1].decoded.err = "Ok"
    /\ last[1].decoded.val.timestamp = last[1].req.timestamp

\* the results ed25519_ix_matches can return
MatchResults ==
    { Ok(TRUE), Ok(FALSE) }
    \cup { Err(e) : e \in { "InvalidInstructionData", "InvalidSignatureCount",
                             "OffsetMismatch", "InvalidMessageSize",
                             "ProofHashMismatch", "IsValidMismatch",
                             "AuthorityMismatch" } }

\* the function got as far as comparing the slices' contents
ContentCompared(res) ==
    res.err \in { "Ok", "ProofHashMismatch", "IsValidMismatch", "AuthorityMismatch" }

\* C33: on every payload, whatever its length and content, ed25519_ix_matches
\* dereferences only indices below the payload's length and returns true,
\* false or one of its tagged errors; it takes the three slices exactly when
\* it goes on to compare their contents, and then they lie in the payload.
C33_NoOutOfBounds ==
    \A c \in { last[i] : i \in DOMAIN last } :
        (c.req.op = "verify_auth" /\ ScanReached(c.req)) =>
            \A i \in PriorIndices(c.req) :
                LET data  == PayloadAt(c.req, i)
                    reads == ed25519_ix_reads(PriorIx(c.req, i))
                IN  /\ \A j \in reads : j >= 0 /\ j < Len(data)
                    /\ MatchAt(c.req, i) \in MatchResults
                    /\ ContentCompared(MatchAt(c.req, i)) <=> (\E j \in reads : j > 15)
                    /\ ContentCompared(MatchAt(c.req, i)) =>
                          /\ Len(data) >= FieldAt(data, 2) + 64
                          /\ Len(data) >= FieldAt(data, 6) + 32
                          /\ Len(data) >= FieldAt(data, 10) + 41

\* C33 witness: a facility payload of 0xFF bytes with count 1, whose
\* offsets and size are all 65535, was refused as invalid instruction data
\* after reads of its header only.
C33_Witness ==
    /\ last # << >>
    /\ last[1].req.op = "verify_auth"
    /\ ScanReached(last[1].req)
    /\ \E i \in PriorIndices(last[1].req) :
          LET data == PayloadAt(last[1].req, i)
          IN  /\ Parsed(last[1].req, i)
              /\ CountAndLocalityPass(data)
              /\ FieldAt(data, 2) = 65535
              /\ FieldAt(data, 10) = 65535
              /\ FieldAt(data, 12) = 65535
              /\ ed25519_ix_reads(PriorIx(last[1].req, i)) = { 0 } \cup (2 .. 15)
    /\ last[1].err = "InvalidInstructionData"

====
